---- MODULE Spec2Model ----
(***************************************************************************)
(* Model of the shared-state tools of the mock job-fair interview agents:  *)
(* the root agent's broadcast_prompt_to_agents (src/persona/agent.py), the *)
(* persona agent's tools (src/persona/persona_agent.py) and the coach      *)
(* agent's context tools (src/persona/coach_agent.py), all acting on one   *)
(* session state dictionary; and of the profile builder build_profile.     *)
(*                                                                         *)
(* A Python dict is a function whose DOMAIN is the set of keys present.    *)
(* A Python str that the code inspects (lower, strip, startswith, in) is a *)
(* sequence of one-character strings; a str that the code only copies is   *)
(* an atomic string.                                                       *)
(***************************************************************************)
EXTENDS Integers, Sequences, FiniteSets, TLC

\* the session: the shared state dict, the last tool call and its return
\* value, and two history variables
VARIABLES state, call, ret, accepted, was_reset

\* one profile request: where it stands, its arguments, the world it runs
\* in, the calls it made and what it returned
VARIABLES pc, args, world, calls, result

\* one WebSocket connection: the socket, the calls made on the connection's
\* LiveRequestQueue, the agent's event stream, and the three coroutines
\* (websocket_endpoint and the two relay tasks)
VARIABLES websocket, live_request_queue, live_events, tasks

svars == <<state, call, ret, accepted, was_reset>>

pvars == <<pc, args, world, calls, result>>

rvars == <<websocket, live_request_queue, live_events, tasks>>

vars == <<svars, pvars, rvars>>

-----------------------------------------------------------------------------
(* Python dict and str primitives                                          *)

EmptyDict == [k \in {} |-> TRUE]

Get(d, k, default) == IF k \in DOMAIN d THEN d[k] ELSE default

Has(d, k) == k \in DOMAIN d

Put(d, k, v) == [x \in DOMAIN d \cup {k} |-> IF x = k THEN v ELSE d[x]]

Pop(d, k) == [x \in DOMAIN d \ {k} |-> d[x]]

\* d.get(k) or default, for string values: a missing key and "" are falsy
GetOr(d, k, default) == IF k \in DOMAIN d /\ d[k] # "" THEN d[k] ELSE default

Upper == <<"A", "B", "C", "D", "E", "F", "G", "H", "I", "J", "K", "L", "M",
           "N", "O", "P", "Q", "R", "S", "T", "U", "V", "W", "X", "Y", "Z">>

LowerOf == <<"a", "b", "c", "d", "e", "f", "g", "h", "i", "j", "k", "l", "m",
             "n", "o", "p", "q", "r", "s", "t", "u", "v", "w", "x", "y", "z">>

LowerChar(c) ==
    IF \E i \in 1..Len(Upper) : Upper[i] = c
    THEN LowerOf[CHOOSE i \in 1..Len(Upper) : Upper[i] = c]
    ELSE c

\* str.lower()
Lower(s) == [i \in 1..Len(s) |-> LowerChar(s[i])]

IsSpace(c) == c \in {" ", "\t", "\n", "\r"}

RECURSIVE LStrip(_)
LStrip(s) == IF s # <<>> /\ IsSpace(Head(s)) THEN LStrip(Tail(s)) ELSE s

RECURSIVE RStrip(_)
RStrip(s) ==
    IF s # <<>> /\ IsSpace(s[Len(s)]) THEN RStrip(SubSeq(s, 1, Len(s) - 1)) ELSE s

\* str.strip()
Strip(s) == RStrip(LStrip(s))

\* str.startswith(p)
StartsWith(s, p) == Len(s) >= Len(p) /\ SubSeq(s, 1, Len(p)) = p

\* p in s
Contains(s, p) ==
    \E i \in 0..(Len(s) - Len(p)) : SubSeq(s, i + 1, i + Len(p)) = p

-----------------------------------------------------------------------------
(* Inputs                                                                  *)

Marker == "\\END_CONVERSATION\\"

\* a profile the root agent may broadcast (render_prompt_from_json output)
ProfileFull == [name |-> "Ada", position |-> "Engineer", company |-> "Acme",
                location |-> "Berlin"]

\* prompt_dict arguments of broadcast_prompt_to_agents
PromptDicts ==
    { EmptyDict,
      [status |-> "error", profile |-> ProfileFull],
      [persona_instructions |-> "You are Ada", profile |-> ProfileFull],
      [persona_instructions |-> "You are nobody"] }

\* message.text values: stop commands in several spellings, a near miss, and
\* ordinary messages that take different reply branches
TxtStopPadded == <<" ", "S", "t", "o", "p", " ">>
TxtEndInterview == <<"E", "N", "D", " ", "I", "N", "T", "E", "R", "V", "I", "E", "W">>
TxtStopping == <<"s", "t", "o", "p", "p", "i", "n", "g">>
TxtTellMe == <<"T", "e", "l", "l", " ", "m", "e", " ", "a", "b", "o", "u", "t", " ", "i", "t">>

Texts == { TxtStopPadded, TxtEndInterview, TxtStopping, TxtTellMe }

-----------------------------------------------------------------------------
(* persona_agent.py                                                        *)

NoNewPersona == <<"No new persona instructions available.">>

NoPersonaYet == <<"I don't have a persona set up yet.">>

ConversationEndedNotice == <<"This conversation has ended.">>

ManualStopReply == <<"Thanks for the conversation! The interview is now complete.", Marker>>

\* the list literal of manual stop commands
StopCommands ==
    { <<"e", "n", "d">>, <<"s", "t", "o", "p">>, <<"f", "i", "n", "i", "s", "h">>,
      <<"d", "o", "n", "e">>,
      <<"e", "n", "d", " ", "i", "n", "t", "e", "r", "v", "i", "e", "w">> }

\* mutant: the text compared without lower()
IsStopCommandNoLower(text) == Strip(text) \in StopCommands

\* message.text.lower().strip() in [...]
IsStopCommand(text) == Strip(Lower(text)) \in StopCommands

\* len([msg for msg in history if "user" in msg])
UserMessageCount(history) ==
    Cardinality({i \in 1..Len(history) : "user" \in DOMAIN history[i]})

\* mutant: the threshold compared with > instead of >=
ShouldAutoEndOffByOne(count) == count > 6

\* if user_message_count >= 6
ShouldAutoEnd(count) == count >= 6

\* if len(history) > 20: history = history[-10:]
TrimHistory(history) ==
    IF Len(history) > 20 THEN SubSeq(history, Len(history) - 9, Len(history))
    ELSE history

\* the if/elif chain choosing the reply, as the fragments of the f-string
BaseReply(user_text, name, position, company) ==
    IF Contains(user_text, <<"t", "e", "l", "l", " ", "m", "e", " ", "a", "b", "o", "u", "t">>)
       \/ Contains(user_text, <<"w", "h", "a", "t", " ", "d", "o", " ", "y", "o", "u", " ", "d", "o">>)
    THEN <<"Hi! I'm", name, position, "at", company, "What brings you to our booth today?">>
    ELSE IF Contains(user_text, <<"c", "o", "m", "p", "a", "n", "y">>)
            \/ Contains(user_text, <<"a", "b", "o", "u", "t", " ", "y", "o", "u", "r">>)
    THEN <<"At", company, "we're always looking for talented individuals.">>
    ELSE IF Contains(user_text, <<"r", "e", "c", "e", "n", "t">>)
            \/ Contains(user_text, <<"n", "e", "w", "s">>)
            \/ Contains(user_text, <<"l", "a", "t", "e", "s", "t">>)
    THEN <<"That's a great question about recent developments at", company>>
    ELSE IF Contains(user_text, <<"e", "x", "p", "e", "r", "i", "e", "n", "c", "e">>)
            \/ Contains(user_text, <<"b", "a", "c", "k", "g", "r", "o", "u", "n", "d">>)
    THEN <<"I'd love to hear about your experience! As", position>>
    ELSE IF Contains(user_text, <<"t", "e", "c", "h", "n", "o", "l", "o", "g", "y">>)
            \/ Contains(user_text, <<"t", "e", "c", "h", " ", "s", "t", "a", "c", "k">>)
            \/ Contains(user_text, <<"t", "o", "o", "l", "s">>)
    THEN <<"Technology is central to what we do at", company>>
    ELSE IF Contains(user_text, <<"q", "u", "e", "s", "t", "i", "o", "n", "s">>)
            \/ Contains(user_text, <<"a", "s", "k">>)
    THEN <<"Absolutely! What would you like to know?", position>>
    ELSE <<"That's interesting! Tell me more about that.">>

Farewell(company) == <<"It's been great chatting with you!", company, Marker>>

\* whether a returned string contains the END_CONVERSATION marker
HasMarker(reply) == \E i \in 1..Len(reply) : reply[i] = Marker

\* mutant: the broadcast prompt taken for the active persona
NoActivePersonaSharedPrompt(st) ==
    LET current_persona == Get(st, "shared_prompt", EmptyDict)
    IN current_persona = EmptyDict \/ ~Get(current_persona, "ready", FALSE)

\* if not current_persona or not current_persona.get("active")
NoActivePersona(st) ==
    LET current_persona == Get(st, "current_persona", EmptyDict)
    IN current_persona = EmptyDict \/ ~Get(current_persona, "active", FALSE)

\* mutant: the flag read under another key
AlreadyEndedWrongKey(st) == Get(st, "ended", FALSE)

\* if state.get("conversation_ended")
AlreadyEnded(st) == Get(st, "conversation_ended", FALSE)

\* chat_with_user(message, state): the new state and the returned string
ChatWithUser(text, st) ==
    IF NoActivePersona(st)
    THEN [state |-> st, ret |-> NoPersonaYet]
    ELSE IF AlreadyEnded(st)
    THEN [state |-> st, ret |-> ConversationEndedNotice]
    ELSE IF IsStopCommand(text)
    THEN [state |-> Put(st, "conversation_ended", TRUE), ret |-> ManualStopReply]
    ELSE
      LET profile == Get(Get(st, "current_persona", EmptyDict), "profile", EmptyDict)
          name == GetOr(profile, "name", "Recruiter")
          position == GetOr(profile, "position", "Recruiter")
          company == GetOr(profile, "company", "Company")
          h1 == Append(Get(st, "chat_history", <<>>),
                       [user |-> text, timestamp |-> "now"])
          user_message_count == UserMessageCount(h1)
          ends == ShouldAutoEnd(user_message_count)
          reply == BaseReply(Lower(text), name, position, company)
                   \o (IF ends THEN Farewell(company) ELSE <<>>)
          h2 == Append(h1, [persona |-> reply, timestamp |-> "now"])
          st1 == IF ends THEN Put(st, "conversation_ended", TRUE) ELSE st
      IN [state |-> Put(st1, "chat_history", TrimHistory(h2)), ret |-> reply]

\* mutant: the processed message left in place
ClearPersonaMessageNoop(messages) == messages

\* messages.pop("persona_agent", None)
ClearPersonaMessage(messages) == Pop(messages, "persona_agent")

\* check_for_new_persona(state)
CheckForNewPersona(st) ==
    LET messages == Get(st, "agent_messages", EmptyDict)
    IN IF Has(messages, "persona_agent")
          /\ messages["persona_agent"] # EmptyDict
          /\ Get(messages["persona_agent"], "type", "") = "new_persona"
       THEN
         LET persona_message == messages["persona_agent"]
             profile == Get(persona_message, "profile", EmptyDict)
             st1 == Put(st, "current_persona",
                        [instructions |-> Get(persona_message, "data", ""),
                         profile |-> profile,
                         active |-> TRUE])
         IN [state |-> Put(st1, "agent_messages", ClearPersonaMessage(messages)),
             ret |-> <<"New persona activated!", Get(profile, "name", "Unknown"),
                       Get(profile, "position", "Unknown Position"),
                       Get(profile, "company", "Unknown Company")>>]
       ELSE [state |-> st, ret |-> NoNewPersona]

\* mutant: the history kept over a reset
ResetConversationKeepsHistory(st) ==
    LET st1 == Pop(st, "conversation_ended")
    IN [state |-> st1, ret |-> <<"Conversation reset!">>]

\* reset_conversation(state)
ResetConversation(st) ==
    LET st1 == Pop(Pop(st, "conversation_ended"), "chat_history")
    IN [state |-> st1,
        ret |-> IF Has(st1, "current_persona")
                THEN <<"Conversation reset! Ready to start a new interview as",
                       Get(Get(st1["current_persona"], "profile", EmptyDict),
                           "name", "Unknown")>>
                ELSE <<"Conversation reset! No active persona">>]

\* get_persona_status(state): read-only; the rendering of the last three
\* messages is left out of the returned fragments
GetPersonaStatus(st) ==
    IF ~Has(st, "current_persona")
    THEN <<"No active persona. Waiting for setup from root agent.">>
    ELSE LET profile == Get(st["current_persona"], "profile", EmptyDict)
             history == Get(st, "chat_history", <<>>)
         IN <<"Active Persona:", Get(profile, "name", "Unknown"),
              Get(profile, "position", "Unknown"), Get(profile, "company", "Unknown"),
              Get(profile, "location", "Unknown")>>
            \o (IF history # <<>>
                THEN <<"Recent conversation", ToString(Len(history))>> ELSE <<>>)

-----------------------------------------------------------------------------
(* agent.py: broadcast_prompt_to_agents                                    *)

NoValidPrompt == <<"Error: No valid prompt to broadcast.">>

\* mutant: only the empty dict rejected
InvalidPromptOnlyEmpty(prompt_dict) == prompt_dict = EmptyDict

\* if not prompt_dict or "persona_instructions" not in prompt_dict
InvalidPrompt(prompt_dict) ==
    prompt_dict = EmptyDict \/ ~Has(prompt_dict, "persona_instructions")

\* prompt_dict["persona_instructions"], read past the guard that it is present
Instructions(prompt_dict) == Get(prompt_dict, "persona_instructions", "")

\* the value stored under state["shared_prompt"]
SharedPrompt(prompt_dict) ==
    [instructions |-> Instructions(prompt_dict),
     profile |-> Get(prompt_dict, "profile", EmptyDict),
     timestamp |-> "{\"time\": \"now\"}",
     ready |-> TRUE]

\* the value stored under messages["persona_agent"]
PersonaMessage(prompt_dict) ==
    [type |-> "new_persona",
     data |-> Instructions(prompt_dict),
     profile |-> Get(prompt_dict, "profile", EmptyDict)]

\* mutant: the coach's message built without the profile
CoachMessageNoProfile(prompt_dict) ==
    [type |-> "coaching_context",
     data |-> <<"New persona created:", "Unknown", "at", "Unknown Company">>,
     profile |-> EmptyDict]

\* the value stored under messages["coach_agent"]
CoachMessage(prompt_dict) ==
    LET profile == Get(prompt_dict, "profile", EmptyDict)
    IN [type |-> "coaching_context",
        data |-> <<"New persona created:", Get(profile, "name", "Unknown"),
                   "at", Get(profile, "company", "Unknown Company")>>,
        profile |-> profile]

\* broadcast_prompt_to_agents(prompt_dict, state)
BroadcastPromptToAgents(prompt_dict, st) ==
    IF InvalidPrompt(prompt_dict)
    THEN [state |-> st, ret |-> NoValidPrompt]
    ELSE
      LET profile == Get(prompt_dict, "profile", EmptyDict)
          st1 == Put(st, "shared_prompt", SharedPrompt(prompt_dict))
          m0 == Get(st1, "agent_messages", EmptyDict)
          m1 == Put(m0, "persona_agent", PersonaMessage(prompt_dict))
          m2 == Put(m1, "coach_agent", CoachMessage(prompt_dict))
      IN [state |-> Put(st1, "agent_messages", m2),
          ret |-> <<"Prompt broadcasted to persona_agent and coach_agent!",
                    Get(profile, "name", "Unknown"),
                    Get(profile, "company", "Unknown Company")>>]

-----------------------------------------------------------------------------
(* coach_agent.py                                                          *)

NoNewCoachingContext == <<"No new coaching context available.">>

\* mutant: the processed message left in place
ClearCoachMessageNoop(messages) == messages

\* messages.pop("coach_agent", None)
ClearCoachMessage(messages) == Pop(messages, "coach_agent")

\* check_for_coaching_context(state)
CheckForCoachingContext(st) ==
    LET messages == Get(st, "agent_messages", EmptyDict)
    IN IF Has(messages, "coach_agent")
          /\ messages["coach_agent"] # EmptyDict
          /\ Get(messages["coach_agent"], "type", "") = "coaching_context"
       THEN
         LET coach_message == messages["coach_agent"]
             profile == Get(coach_message, "profile", EmptyDict)
             st1 == Put(st, "coaching_context",
                        [company |-> Get(profile, "company", "Unknown Company"),
                         position |-> Get(profile, "position", "Unknown Position"),
                         name |-> Get(profile, "name", "Unknown"),
                         industry_context |-> Get(coach_message, "data", ""),
                         active |-> TRUE])
         IN [state |-> Put(st1, "agent_messages", ClearCoachMessage(messages)),
             ret |-> <<"Coaching context updated!",
                       Get(profile, "company", "Unknown Company"),
                       Get(profile, "position", "Unknown Position")>>]
       ELSE [state |-> st, ret |-> NoNewCoachingContext]

\* reset_coaching_session(state)
ResetCoachingSession(st) ==
    [state |-> Pop(Pop(st, "coaching_log"), "coaching_context"),
     ret |-> <<"Coaching session reset. Ready for new persona and conversation!">>]

-----------------------------------------------------------------------------
(* agent.py: the profile builder.  None is Python's None where a str is    *)
(* expected; a bytes value is a record saying what the image decoders make *)
(* of it.  Every operator returns its result together with the calls it    *)
(* made to the world outside (QR detector, temporary file, scraper         *)
(* subprocess, language model) and to the profile sources.                 *)

None == <<"None">>

\* truthiness of an Optional[str]
Truthy(v) == v # None /\ v # <<>>

Digits == {"0", "1", "2", "3", "4", "5", "6", "7", "8", "9"}

Letters == {LowerOf[i] : i \in 1..Len(LowerOf)}

Drop(s, n) == SubSeq(s, n + 1, Len(s))

\* string literals of the URL checks
IN_ == <<"i", "n", "/">>

MWLITE_IN == <<"m", "w", "l", "i", "t", "e", "/", "i", "n", "/">>

PROFILE_VIEW == <<"p", "r", "o", "f", "i", "l", "e", "/", "v", "i", "e", "w", "?", "i",
      "d", "=">>

LINKEDIN_COM == <<"l", "i", "n", "k", "e", "d", "i", "n", ".", "c", "o", "m", "/">>

WWW_LINKEDIN_COM == <<"w", "w", "w", ".", "l", "i", "n", "k", "e", "d", "i", "n", ".", "c",
      "o", "m", "/">>

HTTPS == <<"h", "t", "t", "p", "s", ":", "/", "/">>

HTTP == <<"h", "t", "t", "p", ":", "/", "/">>

\* (?:[/?#].*)?$ : nothing, or one of / ? # and then anything but a newline
MatchesExtra(s) ==
    \/ s = <<>>
    \/ /\ s[1] \in {"/", "?", "#"}
       /\ \A i \in 2..Len(s) : s[i] # "\n"

\* [^/?#]+ then the optional extra: the slug is the longest run without / ? #
MatchesSlug(s) ==
    LET stops == {i \in 1..Len(s) : s[i] \in {"/", "?", "#"}}
        n == IF stops = {} THEN Len(s)
             ELSE (CHOOSE i \in stops : \A j \in stops : i <= j) - 1
    IN n >= 1 /\ MatchesExtra(Drop(s, n))

\* \d+ then the optional extra
MatchesDigits(s) ==
    LET others == {i \in 1..Len(s) : s[i] \notin Digits}
        n == IF others = {} THEN Len(s)
             ELSE (CHOOSE i \in others : \A j \in others : i <= j) - 1
    IN n >= 1 /\ MatchesExtra(Drop(s, n))

\* (?:(?:mwlite/)?in/[^/?#]+ | profile/view\?id=\d+) and the rest
MatchesPath(s) ==
    \/ StartsWith(s, IN_) /\ MatchesSlug(Drop(s, Len(IN_)))
    \/ StartsWith(s, MWLITE_IN) /\ MatchesSlug(Drop(s, Len(MWLITE_IN)))
    \/ StartsWith(s, PROFILE_VIEW) /\ MatchesDigits(Drop(s, Len(PROFILE_VIEW)))

\* (?:[a-z]{2,3}\.)?linkedin\.com/ and the rest
MatchesHost(s) ==
    \/ StartsWith(s, LINKEDIN_COM) /\ MatchesPath(Drop(s, Len(LINKEDIN_COM)))
    \/ \E n \in {2, 3} :
          /\ Len(s) > n
          /\ \A i \in 1..n : s[i] \in Letters
          /\ s[n + 1] = "."
          /\ StartsWith(Drop(s, n + 1), LINKEDIN_COM)
          /\ MatchesPath(Drop(s, n + 1 + Len(LINKEDIN_COM)))

\* _LINKEDIN_PROFILE_RE.match(s), case-insensitive
LinkedinProfileRe(s) ==
    LET l == Lower(s)
    IN \/ StartsWith(l, HTTPS) /\ MatchesHost(Drop(l, Len(HTTPS)))
       \/ StartsWith(l, HTTP) /\ MatchesHost(Drop(l, Len(HTTP)))

\* _is_linkedin_profile_url(url)
IsLinkedinProfileUrl(url) ==
    LinkedinProfileRe(Strip(IF url = None THEN <<>> ELSE url))

\* mutant: only a payload starting with linkedin.com/ is given a scheme
LacksSchemeNoWww(text) ==
    StartsWith(Lower(text), LINKEDIN_COM)

\* lower.startswith("linkedin.com/") or lower.startswith("www.linkedin.com/")
LacksScheme(text) ==
    StartsWith(Lower(text), LINKEDIN_COM) \/ StartsWith(Lower(text), WWW_LINKEDIN_COM)

-----------------------------------------------------------------------------
(* agent.py: QR decoding                                                   *)

\* a call made while serving a request: the function, its caller, its argument
Call(fn, by, arg) == [fn |-> fn, by |-> by, arg |-> arg]

\* bytes values.  An image records its shorter side and the string the QR
\* detector returns on it as it is and after upscaling ("" when it detects
\* or decodes nothing).
Bytes(kind, min_side, native, upscaled) ==
    [kind |-> kind, min_side |-> min_side, native |-> native, upscaled |-> upscaled]

NoneBytes == Bytes("none", 0, <<>>, <<>>)

EmptyBytes == Bytes("empty", 0, <<>>, <<>>)

TruthyBytes(b) == b.kind \notin {"none", "empty"}

\* mutant: the upscaled image is tried whatever the size of the image
DecodeQrCv2AlwaysUpscales(image_bytes) ==
    IF image_bytes.kind \in {"garbage", "empty", "none"}
    THEN [raised |-> "UnidentifiedImageError", ret |-> None, calls |-> <<>>]
    ELSE IF image_bytes.kind # "image"
    THEN [raised |-> "Exception", ret |-> None, calls |-> <<>>]
    ELSE
      LET first == Call("detectAndDecode", "_decode_qr_cv2", "img")
          second == Call("detectAndDecode", "_decode_qr_cv2", "img2")
      IN IF Strip(image_bytes.native) # <<>>
         THEN [raised |-> "", ret |-> Strip(image_bytes.native), calls |-> <<first>>]
         ELSE IF Strip(image_bytes.upscaled) # <<>>
              THEN [raised |-> "", ret |-> Strip(image_bytes.upscaled),
                    calls |-> <<first, second>>]
              ELSE [raised |-> "", ret |-> None, calls |-> <<first, second>>]

\* _decode_qr_cv2(image_bytes): the decoded string or None, or the exception
\* raised by _bytes_to_bgr
DecodeQrCv2(image_bytes) ==
    IF image_bytes.kind \in {"garbage", "empty", "none"}
    THEN [raised |-> "UnidentifiedImageError", ret |-> None, calls |-> <<>>]
    ELSE IF image_bytes.kind # "image"
    THEN [raised |-> "Exception", ret |-> None, calls |-> <<>>]
    ELSE
      LET first == Call("detectAndDecode", "_decode_qr_cv2", "img")
          second == Call("detectAndDecode", "_decode_qr_cv2", "img2")
      IN IF Strip(image_bytes.native) # <<>>
         THEN [raised |-> "", ret |-> Strip(image_bytes.native), calls |-> <<first>>]
         ELSE IF image_bytes.min_side < 600
         THEN IF Strip(image_bytes.upscaled) # <<>>
              THEN [raised |-> "", ret |-> Strip(image_bytes.upscaled),
                    calls |-> <<first, second>>]
              ELSE [raised |-> "", ret |-> None, calls |-> <<first, second>>]
         ELSE [raised |-> "", ret |-> None, calls |-> <<first>>]

\* qr_to_vcard_or_url(image_bytes, mime_type)
QrToVcardOrUrl(image_bytes) ==
    LET d == DecodeQrCv2(image_bytes)
        decoded == d.ret
        text0 == Strip(decoded)
        text == IF LacksScheme(text0) THEN HTTPS \o LStrip(text0) ELSE text0
    IN IF d.raised = "UnidentifiedImageError"
       THEN [ret |-> [status |-> "error",
                      message |-> "Invalid image data: not a recognizable image."],
             calls |-> d.calls]
       ELSE IF d.raised # ""
       THEN [ret |-> [status |-> "error",
                      message |-> "Unable to decode QR from the provided image."],
             calls |-> d.calls]
       ELSE IF ~Truthy(decoded)
       THEN [ret |-> [status |-> "error", message |-> "No QR code found in image."],
             calls |-> d.calls]
       ELSE IF ~IsLinkedinProfileUrl(text)
       THEN [ret |-> [status |-> "error",
                      message |-> "We only accept LinkedIn profile URLs at the moment."],
             calls |-> d.calls]
       ELSE [ret |-> [status |-> "success", linkedin_url |-> text], calls |-> d.calls]

-----------------------------------------------------------------------------
(* agent.py: the profile sources                                           *)

\* generic_profile()
GenericProfile ==
    [name |-> None, position |-> "Recruiter",
     company |-> "Mid-sized software company",
     location |-> "United States (metro area)", url |-> None]

\* the data the scraper subprocess leaves in its output file, by outcome: the
\* language model's JSON object with the url added (complete, or "partial"
\* when the model left fields out), or the scraper's own error dictionary
ScrapedJson(outcome, url) ==
    IF outcome = "profile"
    THEN [name |-> "Ada", position |-> "Engineer", company |-> "Acme",
          location |-> "Berlin", url |-> url]
    ELSE IF outcome = "partial"
    THEN [name |-> "Ada", url |-> url]
    ELSE [error |-> "Failed to parse Gemini response", raw_response |-> "text",
          url |-> url]

\* mutant: a scraper that exits non-zero is started a second time
LinkedinProfileExtractorRetries(linkedin_url, email, password, w) ==
    LET stripped == Strip(linkedin_url)
        normalized_url == IF LacksScheme(stripped) THEN HTTPS \o stripped ELSE stripped
        email1 == IF Truthy(email) THEN email ELSE w.env_email
        password1 == IF Truthy(password) THEN password ELSE w.env_password
        tmp == Call("NamedTemporaryFile", "linkedin_profile_extractor", ".json")
        run == Call("subprocess.run", "linkedin_profile_extractor", normalized_url)
    IN IF ~IsLinkedinProfileUrl(normalized_url)
       THEN [ret |-> [error |-> "Invalid LinkedIn profile URL."], calls |-> <<>>]
       ELSE IF ~w.script_exists
       THEN [ret |-> [error |-> "linkedin_scrape_chrome.py not found"], calls |-> <<>>]
       ELSE IF ~Truthy(email1) \/ ~Truthy(password1)
       THEN [ret |-> [error |-> "Missing EMAIL/PASSWORD for LinkedIn"], calls |-> <<>>]
       ELSE IF w.scraper = "exit_nonzero"
       THEN [ret |-> [error |-> "scraper failed: stderr"], calls |-> <<tmp, run, run>>]
       ELSE IF w.scraper \in {"no_file_content", "json_list"}
       THEN [ret |-> [error |-> "str(e)"], calls |-> <<tmp, run>>]
       ELSE [ret |-> Put(ScrapedJson(w.scraper, normalized_url), "url", normalized_url),
             calls |-> <<tmp, run>>]

\* mutant: the temporary file is created before the credentials are looked at
LinkedinProfileExtractorTempFileFirst(linkedin_url, email, password, w) ==
    LET stripped == Strip(linkedin_url)
        normalized_url == IF LacksScheme(stripped) THEN HTTPS \o stripped ELSE stripped
        email1 == IF Truthy(email) THEN email ELSE w.env_email
        password1 == IF Truthy(password) THEN password ELSE w.env_password
        tmp == Call("NamedTemporaryFile", "linkedin_profile_extractor", ".json")
        run == Call("subprocess.run", "linkedin_profile_extractor", normalized_url)
    IN IF ~IsLinkedinProfileUrl(normalized_url)
       THEN [ret |-> [error |-> "Invalid LinkedIn profile URL."], calls |-> <<>>]
       ELSE IF ~w.script_exists
       THEN [ret |-> [error |-> "linkedin_scrape_chrome.py not found"], calls |-> <<>>]
       ELSE IF ~Truthy(email1) \/ ~Truthy(password1)
       THEN [ret |-> [error |-> "Missing EMAIL/PASSWORD for LinkedIn"], calls |-> <<tmp>>]
       ELSE IF w.scraper = "exit_nonzero"
       THEN [ret |-> [error |-> "scraper failed: stderr"], calls |-> <<tmp, run>>]
       ELSE IF w.scraper \in {"no_file_content", "json_list"}
       THEN [ret |-> [error |-> "str(e)"], calls |-> <<tmp, run>>]
       ELSE [ret |-> Put(ScrapedJson(w.scraper, normalized_url), "url", normalized_url),
             calls |-> <<tmp, run>>]

\* linkedin_profile_extractor(linkedin_url, email, password, headless,
\* chromedriver) in world w: env credentials, script presence, scraper outcome
LinkedinProfileExtractor(linkedin_url, email, password, w) ==
    LET stripped == Strip(linkedin_url)
        normalized_url == IF LacksScheme(stripped) THEN HTTPS \o stripped ELSE stripped
        email1 == IF Truthy(email) THEN email ELSE w.env_email
        password1 == IF Truthy(password) THEN password ELSE w.env_password
        tmp == Call("NamedTemporaryFile", "linkedin_profile_extractor", ".json")
        run == Call("subprocess.run", "linkedin_profile_extractor", normalized_url)
    IN IF ~IsLinkedinProfileUrl(normalized_url)
       THEN [ret |-> [error |-> "Invalid LinkedIn profile URL."], calls |-> <<>>]
       ELSE IF ~w.script_exists
       THEN [ret |-> [error |-> "linkedin_scrape_chrome.py not found"], calls |-> <<>>]
       ELSE IF ~Truthy(email1) \/ ~Truthy(password1)
       THEN [ret |-> [error |-> "Missing EMAIL/PASSWORD for LinkedIn"], calls |-> <<>>]
       ELSE IF w.scraper = "exit_nonzero"
       THEN [ret |-> [error |-> "scraper failed: stderr"], calls |-> <<tmp, run>>]
       ELSE IF w.scraper \in {"no_file_content", "json_list"}
       THEN [ret |-> [error |-> "str(e)"], calls |-> <<tmp, run>>]
       ELSE [ret |-> Put(ScrapedJson(w.scraper, normalized_url), "url", normalized_url),
             calls |-> <<tmp, run>>]

\* nl_to_json_extractor(text) in world w: what the language model answers.
\* The regex fallback's matches are kept as the searches they come from.
NlToJsonExtractor(text, w) ==
    LET gen == Call("generate_content", "nl_to_json_extractor", text)
        fallback == [name |-> None, position |-> None,
                     company |-> <<"re.search", "at", text>>,
                     location |-> <<"re.search", "in|based in", text>>,
                     url |-> None]
    IN IF ~Truthy(text) \/ Strip(text) = <<>>
       THEN [ret |-> GenericProfile,
             calls |-> <<Call("generic_profile", "nl_to_json_extractor", <<>>)>>]
       ELSE IF w.model = "json"
       THEN [ret |-> [name |-> "Ada", position |-> None, company |-> "Acme",
                      location |-> None, url |-> None],
             calls |-> <<gen>>]
       ELSE [ret |-> fallback, calls |-> <<gen>>]

-----------------------------------------------------------------------------
(* agent.py: build_profile and build_profile_from_inputs                   *)

\* mutant: preferences looked at before linkedin_url
SourceForPreferencesFirst(input_data) ==
    IF Truthy(Get(input_data, "preferences", None)) THEN "nl_to_json_extractor"
    ELSE IF Truthy(Get(input_data, "linkedin_url", None)) THEN "linkedin_profile_extractor"
    ELSE "generic_profile"

\* the branch taken by steps 2) to 4) of build_profile
SourceFor(input_data) ==
    IF Truthy(Get(input_data, "linkedin_url", None)) THEN "linkedin_profile_extractor"
    ELSE IF Truthy(Get(input_data, "preferences", None)) THEN "nl_to_json_extractor"
    ELSE "generic_profile"

\* mutant: a QR that does not give a LinkedIn profile URL is passed over and
\* the request falls through to the next source
BuildProfileFallsThrough(input_data, w) ==
    LET image_bytes == Get(input_data, "image_bytes", NoneBytes)
        qr == QrToVcardOrUrl(image_bytes)
        qr_calls == <<Call("qr_to_vcard_or_url", "build_profile", image_bytes)>>
                    \o qr.calls
        scanned == TruthyBytes(image_bytes)
        input1 == IF scanned /\ qr.ret.status = "success"
                  THEN Put(input_data, "linkedin_url", qr.ret.linkedin_url)
                  ELSE input_data
        before == IF scanned THEN qr_calls ELSE <<>>
        source == SourceFor(input1)
    IN IF source = "linkedin_profile_extractor"
       THEN LET r == LinkedinProfileExtractor(input1["linkedin_url"],
                                              Get(input1, "email", None),
                                              Get(input1, "password", None), w)
            IN [ret |-> r.ret,
                calls |-> before
                          \o <<Call(source, "build_profile", input1["linkedin_url"])>>
                          \o r.calls]
       ELSE IF source = "nl_to_json_extractor"
       THEN LET r == NlToJsonExtractor(input1["preferences"], w)
            IN [ret |-> r.ret,
                calls |-> before
                          \o <<Call(source, "build_profile", input1["preferences"])>>
                          \o r.calls]
       ELSE [ret |-> GenericProfile,
             calls |-> before \o <<Call(source, "build_profile", <<>>)>>]

\* build_profile(input_data) in world w
BuildProfile(input_data, w) ==
    LET image_bytes == Get(input_data, "image_bytes", NoneBytes)
        qr == QrToVcardOrUrl(image_bytes)
        qr_calls == <<Call("qr_to_vcard_or_url", "build_profile", image_bytes)>>
                    \o qr.calls
        scanned == TruthyBytes(image_bytes)
        input1 == IF scanned /\ qr.ret.status = "success"
                  THEN Put(input_data, "linkedin_url", qr.ret.linkedin_url)
                  ELSE input_data
        before == IF scanned THEN qr_calls ELSE <<>>
        source == SourceFor(input1)
    IN IF scanned /\ qr.ret.status # "success"
       THEN [ret |-> [error |-> Get(qr.ret, "message", "Invalid QR code")],
             calls |-> before]
       ELSE IF source = "linkedin_profile_extractor"
       THEN LET r == LinkedinProfileExtractor(input1["linkedin_url"],
                                              Get(input1, "email", None),
                                              Get(input1, "password", None), w)
            IN [ret |-> r.ret,
                calls |-> before
                          \o <<Call(source, "build_profile", input1["linkedin_url"])>>
                          \o r.calls]
       ELSE IF source = "nl_to_json_extractor"
       THEN LET r == NlToJsonExtractor(input1["preferences"], w)
            IN [ret |-> r.ret,
                calls |-> before
                          \o <<Call(source, "build_profile", input1["preferences"])>>
                          \o r.calls]
       ELSE [ret |-> GenericProfile,
             calls |-> before \o <<Call(source, "build_profile", <<>>)>>]

\* a base64 str argument: None, "" or a string that decodes (or does not, if
\* valid is false) to the given bytes
B64(kind, bytes) == [kind |-> kind, bytes |-> bytes]

\* build_profile_from_inputs(image_b64, linkedin_url, preferences, email,
\* password, ...) in world w
BuildProfileFromInputs(a, w) ==
    LET payload == [linkedin_url |-> a.linkedin_url, preferences |-> a.preferences,
                    email |-> a.email, password |-> a.password]
    IN IF a.image_b64.kind \in {"none", "empty"}
       THEN BuildProfile(payload, w)
       ELSE IF a.image_b64.kind = "invalid"
       THEN [ret |-> [error |-> "Invalid base64 image"], calls |-> <<>>]
       ELSE BuildProfile(Put(payload, "image_bytes", a.image_b64.bytes), w)

-----------------------------------------------------------------------------
(* The session: one shared state dict, tools called in any order.          *)
(* call is the last tool call (its name and argument) and ret the string   *)
(* it returned.  accepted counts the user messages accepted since the     *)
(* session began or was last reset: those sent with an active persona to a *)
(* conversation that has not ended and that are no stop command.             *)
(* was_reset records that reset_conversation has been called.              *)

PersonaActive(st) ==
    Has(st, "current_persona") /\ Get(st["current_persona"], "active", FALSE) = TRUE

ConversationEnded(st) == Has(st, "conversation_ended") /\ st["conversation_ended"] = TRUE

IsStopWord(text) == Strip(Lower(text)) \in StopCommands

Accepted(text, st) ==
    PersonaActive(st) /\ ~ConversationEnded(st) /\ ~IsStopWord(text)

NoRequest ==
    /\ pc = "idle"
    /\ args = EmptyDict
    /\ world = EmptyDict
    /\ calls = <<>>
    /\ result = [fn |-> "", ret |-> EmptyDict]

NewSession ==
    /\ state = EmptyDict
    /\ call = [op |-> "none", arg |-> <<>>]
    /\ ret = <<>>
    /\ accepted = 0
    /\ was_reset = FALSE

\* no WebSocket connection is open
NoConnection ==
    /\ websocket = [state |-> "none", incoming |-> <<>>, received |-> <<>>]
    /\ live_request_queue = <<>>
    /\ live_events = [status |-> "none", pending |-> <<>>]
    /\ tasks = [websocket_endpoint |-> "none", client_to_agent |-> "none",
                agent_to_client |-> "none"]

Init == NewSession /\ NoRequest /\ NoConnection

check_for_new_persona ==
    /\ call' = [op |-> "check_for_new_persona", arg |-> <<>>]
    /\ UNCHANGED <<pvars, rvars>>
    /\ state' = CheckForNewPersona(state).state
    /\ ret' = CheckForNewPersona(state).ret
    /\ UNCHANGED <<accepted, was_reset>>

chat_with_user ==
    \E text \in Texts :
        LET r == ChatWithUser(text, state)
        IN /\ call' = [op |-> "chat_with_user", arg |-> text]
           /\ state' = r.state
           /\ ret' = r.ret
           /\ accepted' = IF Accepted(text, state) THEN accepted + 1 ELSE accepted
           /\ UNCHANGED <<was_reset, pvars, rvars>>

reset_conversation ==
    /\ call' = [op |-> "reset_conversation", arg |-> <<>>]
    /\ UNCHANGED <<pvars, rvars>>
    /\ state' = ResetConversation(state).state
    /\ ret' = ResetConversation(state).ret
    /\ accepted' = 0
    /\ was_reset' = TRUE

get_persona_status ==
    /\ call' = [op |-> "get_persona_status", arg |-> <<>>]
    /\ UNCHANGED <<pvars, rvars>>
    /\ ret' = GetPersonaStatus(state)
    /\ UNCHANGED <<state, accepted, was_reset>>

broadcast_prompt_to_agents ==
    \E prompt_dict \in PromptDicts :
        /\ call' = [op |-> "broadcast_prompt_to_agents", arg |-> prompt_dict]
        /\ state' = BroadcastPromptToAgents(prompt_dict, state).state
        /\ ret' = BroadcastPromptToAgents(prompt_dict, state).ret
        /\ UNCHANGED <<accepted, was_reset, pvars, rvars>>

check_for_coaching_context ==
    /\ call' = [op |-> "check_for_coaching_context", arg |-> <<>>]
    /\ UNCHANGED <<pvars, rvars>>
    /\ state' = CheckForCoachingContext(state).state
    /\ ret' = CheckForCoachingContext(state).ret
    /\ UNCHANGED <<accepted, was_reset>>

reset_coaching_session ==
    /\ call' = [op |-> "reset_coaching_session", arg |-> <<>>]
    /\ UNCHANGED <<pvars, rvars>>
    /\ state' = ResetCoachingSession(state).state
    /\ ret' = ResetCoachingSession(state).ret
    /\ UNCHANGED <<accepted, was_reset>>

\* the root agent and the persona agent on the session state
Next ==
    \/ broadcast_prompt_to_agents
    \/ check_for_new_persona
    \/ chat_with_user
    \/ reset_conversation
    \/ get_persona_status

Spec == Init /\ [][Next]_vars

\* the root agent and the coach agent on the session state, with the persona
\* agent picking up its message
NextCoach ==
    \/ broadcast_prompt_to_agents
    \/ check_for_coaching_context
    \/ reset_coaching_session
    \/ check_for_new_persona

SpecCoach == Init /\ [][NextCoach]_vars

\* parse_qr_b64(image_b64, mime_type)
ParseQrB64(image_b64) ==
    IF image_b64.kind \in {"none", "invalid"}
    THEN [ret |-> [status |-> "error", message |-> "Invalid base64: e"], calls |-> <<>>]
    ELSE LET r == QrToVcardOrUrl(image_b64.bytes)
         IN [ret |-> r.ret,
             calls |-> <<Call("qr_to_vcard_or_url", "parse_qr_b64", image_b64.bytes)>>
                       \o r.calls]

-----------------------------------------------------------------------------
(* Profile requests: the arguments and worlds a request is checked in      *)

\* QR payloads, linkedin_url and preferences arguments
QrProfile == <<"h", "t", "t", "p", "s", ":", "/", "/", "w", "w", "w", ".", "l", "i",
      "n", "k", "e", "d", "i", "n", ".", "c", "o", "m", "/", "i", "n", "/",
      "a", "d", "a">>

QrNoScheme == <<" ", "w", "w", "w", ".", "l", "i", "n", "k", "e", "d", "i", "n", ".",
      "c", "o", "m", "/", "i", "n", "/", "a", "d", "a", "\n">>

QrOtherUrl == <<"h", "t", "t", "p", "s", ":", "/", "/", "e", "x", "a", "m", "p", "l",
      "e", ".", "c", "o", "m", "/", "a", "d", "a">>

QrVcard == <<"B", "E", "G", "I", "N", ":", "V", "C", "A", "R", "D", "\n", "F", "N",
      ":", "A", "d", "a", "\n", "E", "N", "D", ":", "V", "C", "A", "R",
      "D">>

UrlBob == <<"l", "i", "n", "k", "e", "d", "i", "n", ".", "c", "o", "m", "/", "i",
      "n", "/", "b", "o", "b", " ">>

UrlNotProfile == <<"h", "t", "t", "p", "s", ":", "/", "/", "e", "x", "a", "m", "p", "l",
      "e", ".", "c", "o", "m", "/", "b", "o", "b">>

PrefsBlank == <<" ", " ", " ">>

PrefsText == <<"I", " ", "m", "e", "t", " ", "A", "d", "a", " ", "a", "t", " ", "A",
      "c", "m", "e">>

\* images: undecodable bytes, images without a QR code (large and small),
\* a small image whose QR code is read only after upscaling, and large
\* images with each payload
Images ==
    { Bytes("garbage", 0, <<>>, <<>>),
      Bytes("truncated", 0, <<>>, <<>>),
      Bytes("image", 800, <<>>, <<>>),
      Bytes("image", 300, <<>>, <<>>),
      Bytes("image", 300, <<>>, QrProfile),
      Bytes("image", 800, QrProfile, QrProfile),
      Bytes("image", 800, QrNoScheme, QrNoScheme),
      Bytes("image", 800, QrOtherUrl, QrOtherUrl),
      Bytes("image", 800, QrVcard, QrVcard) }

ImageArgs ==
    { B64("none", NoneBytes), B64("empty", EmptyBytes), B64("invalid", NoneBytes) }
    \cup { B64("valid", b) : b \in Images }

Credentials == { [email |-> None, password |-> None],
                 [email |-> <<"e">>, password |-> <<"p">>] }

Args ==
    { [image_b64 |-> i, linkedin_url |-> u, preferences |-> p,
       email |-> c.email, password |-> c.password] :
        i \in ImageArgs, u \in {None, <<>>, UrlBob, UrlNotProfile},
        p \in {None, PrefsBlank, PrefsText}, c \in Credentials }

\* the scraper outcomes are tried with a working language model, and a
\* failing language model with a working scraper
Worlds ==
    { [env_email |-> c.email, env_password |-> c.password, script_exists |-> x,
       scraper |-> o.scraper, model |-> o.model] :
        c \in Credentials, x \in BOOLEAN,
        o \in { [scraper |-> k, model |-> "json"] :
                  k \in {"profile", "partial", "error_dict", "exit_nonzero",
                         "no_file_content", "json_list"} }
              \cup { [scraper |-> "profile", model |-> "fail"] } }

InitProfile ==
    /\ NewSession
    /\ NoConnection
    /\ pc = "start"
    /\ args \in Args
    /\ world \in Worlds
    /\ calls = <<>>
    /\ result = [fn |-> "", ret |-> EmptyDict]

\* the input_data a direct caller of build_profile passes for the same inputs
InputData(a) ==
    [image_bytes |-> a.image_b64.bytes, linkedin_url |-> a.linkedin_url,
     preferences |-> a.preferences, email |-> a.email, password |-> a.password]

build_profile_from_inputs ==
    /\ pc = "start"
    /\ pc' = "done"
    /\ result' = [fn |-> "build_profile_from_inputs",
                  ret |-> BuildProfileFromInputs(args, world).ret]
    /\ calls' = BuildProfileFromInputs(args, world).calls
    /\ UNCHANGED <<args, world, svars, rvars>>

build_profile ==
    /\ pc = "start"
    /\ pc' = "done"
    /\ result' = [fn |-> "build_profile", ret |-> BuildProfile(InputData(args), world).ret]
    /\ calls' = BuildProfile(InputData(args), world).calls
    /\ UNCHANGED <<args, world, svars, rvars>>

NextProfile ==
    \/ build_profile_from_inputs
    \/ build_profile

SpecProfile == InitProfile /\ [][NextProfile]_vars

-----------------------------------------------------------------------------
(* QR requests: parse_qr_b64 and qr_to_vcard_or_url on their own            *)

\* further QR payloads
QrBareHost == <<"l", "i", "n", "k", "e", "d", "i", "n", ".", "c", "o", "m", "/", "i",
      "n", "/", "a", "d", "a">>

QrHttpUpper == <<"H", "T", "T", "P", ":", "/", "/", "D", "E", ".", "L", "I", "N", "K",
      "E", "D", "I", "N", ".", "C", "O", "M", "/", "M", "W", "L", "I",
      "T", "E", "/", "I", "N", "/", "A", "D", "A", "?", "x", "=",
      "1">>

QrLegacy == <<"h", "t", "t", "p", "s", ":", "/", "/", "w", "w", "w", ".", "l", "i",
      "n", "k", "e", "d", "i", "n", ".", "c", "o", "m", "/", "p", "r",
      "o", "f", "i", "l", "e", "/", "v", "i", "e", "w", "?", "i", "d",
      "=", "4", "2">>

QrCompany == <<"h", "t", "t", "p", "s", ":", "/", "/", "w", "w", "w", ".", "l", "i",
      "n", "k", "e", "d", "i", "n", ".", "c", "o", "m", "/", "c", "o",
      "m", "p", "a", "n", "y", "/", "a", "c", "m", "e">>

QrSlugless == <<"w", "w", "w", ".", "l", "i", "n", "k", "e", "d", "i", "n", ".", "c",
      "o", "m", "/", "i", "n", "/">>

QrText == <<"h", "e", "l", "l", "o", " ", "a", "d", "a">>

QrBlank == <<" ", " ", "\n">>

QrPayloads ==
    {QrProfile, QrNoScheme, QrOtherUrl, QrVcard, QrBareHost, QrHttpUpper, QrLegacy,
     QrCompany, QrSlugless, QrText, QrBlank}

\* images below, at and above the upscaling limit, with every payload or
\* none read from the image as given and from its upscaled copy
QrImages ==
    { Bytes("garbage", 0, <<>>, <<>>), Bytes("truncated", 0, <<>>, <<>>) }
    \cup { Bytes("image", side, native, upscaled) :
             side \in {300, 600, 800},
             native \in QrPayloads \cup {<<>>},
             upscaled \in QrPayloads \cup {<<>>} }

QrArgs ==
    { [image_b64 |-> i] :
        i \in { B64("none", NoneBytes), B64("empty", EmptyBytes),
                B64("invalid", NoneBytes) }
              \cup { B64("valid", b) : b \in QrImages } }

\* the QR tools read nothing of the environment
QrWorld ==
    [env_email |-> None, env_password |-> None, script_exists |-> FALSE,
     scraper |-> "profile", model |-> "json"]

InitQr ==
    /\ NewSession
    /\ NoConnection
    /\ pc = "start"
    /\ args \in QrArgs
    /\ world = QrWorld
    /\ calls = <<>>
    /\ result = [fn |-> "", ret |-> EmptyDict]

parse_qr_b64 ==
    /\ pc = "start"
    /\ pc' = "done"
    /\ result' = [fn |-> "parse_qr_b64", ret |-> ParseQrB64(args.image_b64).ret]
    /\ calls' = ParseQrB64(args.image_b64).calls
    /\ UNCHANGED <<args, world, svars, rvars>>

\* a direct call with the bytes the argument stands for
qr_to_vcard_or_url ==
    /\ pc = "start"
    /\ args.image_b64.kind \in {"valid", "empty"}
    /\ pc' = "done"
    /\ result' = [fn |-> "qr_to_vcard_or_url",
                  ret |-> QrToVcardOrUrl(args.image_b64.bytes).ret]
    /\ calls' = <<Call("qr_to_vcard_or_url", "", args.image_b64.bytes)>>
                \o QrToVcardOrUrl(args.image_b64.bytes).calls
    /\ UNCHANGED <<args, world, svars, rvars>>

NextQr ==
    \/ parse_qr_b64
    \/ qr_to_vcard_or_url

SpecQr == InitQr /\ [][NextQr]_vars

-----------------------------------------------------------------------------
(* main.py: the WebSocket relay.  A bytes value is a sequence of numbers   *)
(* 0..255; a text frame is given by what json.loads makes of it; the       *)
(* LiveRequestQueue is the sequence of calls made on it.                   *)

B64Alphabet ==
    <<"A", "B", "C", "D", "E", "F", "G", "H", "I", "J", "K", "L", "M",
      "N", "O", "P", "Q", "R", "S", "T", "U", "V", "W", "X", "Y", "Z",
      "a", "b", "c", "d", "e", "f", "g", "h", "i", "j", "k", "l", "m",
      "n", "o", "p", "q", "r", "s", "t", "u", "v", "w", "x", "y", "z",
      "0", "1", "2", "3", "4", "5", "6", "7", "8", "9", "+", "/">>

\* the value 0..63 of each character of the alphabet
B64Index ==
    [c \in {B64Alphabet[i] : i \in 1..Len(B64Alphabet)} |->
        (CHOOSE i \in 1..Len(B64Alphabet) : B64Alphabet[i] = c) - 1]

IsB64Char(c) == c \in DOMAIN B64Index

B64Value(c) == B64Index[c]

\* binascii.a2b_base64 without strict mode: characters outside the alphabet
\* are skipped, a complete padding ends the input, and input that stops
\* inside a group of four raises binascii.Error
RECURSIVE A2bBase64(_, _)
A2bBase64(s, st) ==
    IF s = <<>>
    THEN IF st.quad_pos # 0
         THEN [raised |-> "binascii.Error", ret |-> <<>>]
         ELSE [raised |-> "", ret |-> st.out]
    ELSE LET c == Head(s)
             v == B64Value(c)
         IN IF c = "="
            THEN IF st.quad_pos >= 2 /\ st.quad_pos + st.pads + 1 >= 4
                 THEN [raised |-> "", ret |-> st.out]
                 ELSE A2bBase64(Tail(s),
                        [st EXCEPT !.pads = IF st.quad_pos >= 2 THEN @ + 1 ELSE @])
            ELSE IF ~IsB64Char(c)
            THEN A2bBase64(Tail(s), st)
            ELSE A2bBase64(Tail(s),
                   IF st.quad_pos = 0
                   THEN [quad_pos |-> 1, leftchar |-> v, pads |-> 0, out |-> st.out]
                   ELSE IF st.quad_pos = 1
                   THEN [quad_pos |-> 2, leftchar |-> v % 16, pads |-> 0,
                         out |-> Append(st.out, (st.leftchar * 4) + (v \div 16))]
                   ELSE IF st.quad_pos = 2
                   THEN [quad_pos |-> 3, leftchar |-> v % 4, pads |-> 0,
                         out |-> Append(st.out, (st.leftchar * 16) + (v \div 4))]
                   ELSE [quad_pos |-> 0, leftchar |-> 0, pads |-> 0,
                         out |-> Append(st.out, (st.leftchar * 64) + v)])

\* base64.b64decode(data)
B64Decode(data) ==
    A2bBase64(data, [quad_pos |-> 0, leftchar |-> 0, pads |-> 0, out |-> <<>>])

\* base64.b64encode(audio_data).decode("ascii")
RECURSIVE B64Encode(_)
B64Encode(b) ==
    IF b = <<>>
    THEN <<>>
    ELSE LET n == Len(b)
             b2 == IF n >= 2 THEN b[2] ELSE 0
             b3 == IF n >= 3 THEN b[3] ELSE 0
         IN << B64Alphabet[(b[1] \div 4) + 1],
               B64Alphabet[((b[1] % 4) * 16) + (b2 \div 16) + 1],
               IF n >= 2 THEN B64Alphabet[((b2 % 16) * 4) + (b3 \div 64) + 1] ELSE "=",
               IF n >= 3 THEN B64Alphabet[(b3 % 64) + 1] ELSE "=" >>
            \o B64Encode(Drop(b, 3))

\* a text frame that is a JSON object with mime_type and data
Envelope(mime_type, data) == [kind |-> "json", mime_type |-> mime_type, data |-> data]

\* a text frame that is no JSON
NotJson == [kind |-> "not_json", mime_type |-> "", data |-> <<>>]

\* json.loads(message_json)
JsonLoads(message_json) ==
    IF message_json.kind = "json"
    THEN [raised |-> "",
          ret |-> [mime_type |-> message_json.mime_type, data |-> message_json.data]]
    ELSE [raised |-> "JSONDecodeError", ret |-> EmptyDict]

\* mutant: an envelope with an unsupported mime type is passed over
ClientToAgentMessagingSkipsUnsupported(message_json) ==
    LET message == JsonLoads(message_json)
        mime_type == message.ret.mime_type
        data == message.ret.data
        decoded_data == B64Decode(data)
    IN IF message.raised # ""
       THEN [raised |-> message.raised, calls |-> <<>>]
       ELSE IF mime_type = "text/plain"
       THEN [raised |-> "",
             calls |-> <<Call("send_content", "client_to_agent_messaging",
                              [role |-> "user", text |-> data])>>]
       ELSE IF mime_type = "audio/pcm"
       THEN IF decoded_data.raised # ""
            THEN [raised |-> decoded_data.raised, calls |-> <<>>]
            ELSE [raised |-> "",
                  calls |-> <<Call("send_realtime", "client_to_agent_messaging",
                                   [data |-> decoded_data.ret, mime_type |-> mime_type])>>]
       ELSE [raised |-> "", calls |-> <<>>]

\* one turn of the loop of client_to_agent_messaging on the frame received:
\* the calls made on live_request_queue and the exception raised, if any
ClientToAgentMessaging(message_json) ==
    LET message == JsonLoads(message_json)
        mime_type == message.ret.mime_type
        data == message.ret.data
        decoded_data == B64Decode(data)
    IN IF message.raised # ""
       THEN [raised |-> message.raised, calls |-> <<>>]
       ELSE IF mime_type = "text/plain"
       THEN [raised |-> "",
             calls |-> <<Call("send_content", "client_to_agent_messaging",
                              [role |-> "user", text |-> data])>>]
       ELSE IF mime_type = "audio/pcm"
       THEN IF decoded_data.raised # ""
            THEN [raised |-> decoded_data.raised, calls |-> <<>>]
            ELSE [raised |-> "",
                  calls |-> <<Call("send_realtime", "client_to_agent_messaging",
                                   [data |-> decoded_data.ret, mime_type |-> mime_type])>>]
       ELSE [raised |-> "ValueError", calls |-> <<>>]

\* an event of live_events: its flags and the first part of its content,
\* with the bytes of its audio/pcm inline_data and its text (empty if absent)
Event(turn_complete, interrupted, has_part, inline_data, text, partial) ==
    [turn_complete |-> turn_complete, interrupted |-> interrupted,
     part |-> [present |-> has_part, inline_data |-> inline_data, text |-> text],
     partial |-> partial]

\* one turn of the loop of agent_to_client_messaging on an event: the
\* messages given to websocket.send_text (none or one)
AgentToClientMessaging(event) ==
    IF event.turn_complete \/ event.interrupted
    THEN <<[kind |-> "turn", turn_complete |-> event.turn_complete,
            interrupted |-> event.interrupted]>>
    ELSE IF ~event.part.present
    THEN <<>>
    ELSE IF event.part.inline_data # <<>>
    THEN <<Envelope("audio/pcm", B64Encode(event.part.inline_data))>>
    ELSE IF event.part.text # <<>> /\ event.partial
    THEN <<Envelope("text/plain", event.part.text)>>
    ELSE <<>>

\* a task has ended with an exception
Raised(status) == status \notin {"none", "running", "done"}

\* mutant: the endpoint waits until both tasks have ended
WaitReturnsAllCompleted(t) ==
    /\ t.client_to_agent \notin {"none", "running"}
    /\ t.agent_to_client \notin {"none", "running"}

\* asyncio.wait(tasks, return_when=asyncio.FIRST_EXCEPTION) returns: a task
\* has raised, or both have ended
WaitReturns(t) ==
    \/ Raised(t.client_to_agent)
    \/ Raised(t.agent_to_client)
    \/ t.client_to_agent = "done" /\ t.agent_to_client = "done"

-----------------------------------------------------------------------------
(* One WebSocket connection                                                *)

\* the frames a client sends over one connection
MaxFrames == 2

\* frames the client sends: text, audio that decodes, audio cut short of a
\* group of four, a mime type that is not supported, text that is no JSON
Frames ==
    { Envelope("text/plain", <<"h", "i">>),
      Envelope("audio/pcm", <<"a", "G", "k", "=">>),
      Envelope("audio/pcm", <<"a", "G", "k">>),
      Envelope("image/png", <<"a", "G", "k", "=">>),
      NotJson }

\* events the agent emits: end of turn, audio, partial text, final text
Events ==
    { Event(TRUE, FALSE, FALSE, <<>>, <<>>, FALSE),
      Event(FALSE, FALSE, TRUE, <<104, 105>>, <<>>, FALSE),
      Event(FALSE, FALSE, TRUE, <<>>, <<"h", "i">>, TRUE),
      Event(FALSE, FALSE, TRUE, <<>>, <<"h", "i">>, FALSE) }

\* a client has asked for a connection
InitRelay ==
    /\ NewSession
    /\ NoRequest
    /\ websocket = [state |-> "connecting", incoming |-> <<>>, received |-> <<>>]
    /\ live_request_queue = <<>>
    /\ live_events = [status |-> "none", pending |-> <<>>]
    /\ tasks = [websocket_endpoint |-> "start", client_to_agent |-> "none",
                agent_to_client |-> "none"]

\* websocket_endpoint up to asyncio.wait: accept, start_agent_session, and
\* the two tasks created
websocket_endpoint_start ==
    /\ tasks.websocket_endpoint = "start"
    /\ websocket' = [websocket EXCEPT !.state = "connected"]
    /\ live_events' = [live_events EXCEPT !.status = "open"]
    /\ tasks' = [websocket_endpoint |-> "waiting", client_to_agent |-> "running",
                 agent_to_client |-> "running"]
    /\ UNCHANGED <<live_request_queue, svars, pvars>>

\* the client sends a text frame
client_sends ==
    \E frame \in Frames :
        /\ websocket.state = "connected"
        /\ Len(websocket.incoming) + Len(websocket.received) < MaxFrames
        /\ websocket' = [websocket EXCEPT !.incoming = Append(@, frame)]
        /\ UNCHANGED <<live_request_queue, live_events, tasks, svars, pvars>>

\* the client closes the connection
client_disconnects ==
    /\ websocket.state = "connected"
    /\ websocket' = [websocket EXCEPT !.state = "disconnected"]
    /\ UNCHANGED <<live_request_queue, live_events, tasks, svars, pvars>>

\* runner.run_live has its next event ready (an async generator: one event
\* at a time), ends, or fails
agent_emits ==
    \E event \in Events :
        /\ live_events.status = "open"
        /\ live_events.pending = <<>>
        /\ live_events' = [live_events EXCEPT !.pending = <<event>>]
        /\ UNCHANGED <<websocket, live_request_queue, tasks, svars, pvars>>

agent_stream_ends ==
    /\ live_events.status = "open"
    /\ live_events' = [live_events EXCEPT !.status = "ended"]
    /\ UNCHANGED <<websocket, live_request_queue, tasks, svars, pvars>>

agent_stream_fails ==
    /\ live_events.status = "open"
    /\ live_events' = [live_events EXCEPT !.status = "failed"]
    /\ UNCHANGED <<websocket, live_request_queue, tasks, svars, pvars>>

\* client_to_agent_messaging, one turn of its loop: receive_text returns the
\* next frame, or raises WebSocketDisconnect once the client is gone and no
\* frame is left
client_to_agent_messaging ==
    /\ tasks.client_to_agent = "running"
    /\ IF websocket.incoming # <<>>
       THEN LET message_json == Head(websocket.incoming)
                r == ClientToAgentMessaging(message_json)
            IN /\ websocket' = [websocket EXCEPT !.incoming = Tail(@),
                                                 !.received = Append(@, message_json)]
               /\ live_request_queue' = live_request_queue \o r.calls
               /\ tasks' = IF r.raised # ""
                           THEN [tasks EXCEPT !.client_to_agent = r.raised]
                           ELSE tasks
       ELSE /\ websocket.state = "disconnected"
            /\ tasks' = [tasks EXCEPT !.client_to_agent = "WebSocketDisconnect"]
            /\ UNCHANGED <<websocket, live_request_queue>>
    /\ UNCHANGED <<live_events, svars, pvars>>

\* agent_to_client_messaging, one turn of its loop: the next event is
\* relayed, or the stream has ended or failed.  send_text on a connection
\* the client has left raises or is dropped, as the server has it; what a
\* connected client is sent is not kept in the state.
agent_to_client_messaging ==
    /\ tasks.agent_to_client = "running"
    /\ IF live_events.pending # <<>>
       THEN LET messages == AgentToClientMessaging(Head(live_events.pending))
            IN /\ live_events' = [live_events EXCEPT !.pending = Tail(@)]
               /\ IF messages = <<>> \/ websocket.state = "connected"
                  THEN UNCHANGED tasks
                  ELSE \E outcome \in {"raises", "dropped"} :
                          tasks' = IF outcome = "raises"
                                   THEN [tasks EXCEPT !.agent_to_client = "RuntimeError"]
                                   ELSE tasks
       ELSE /\ live_events.status \in {"ended", "failed"}
            /\ tasks' = [tasks EXCEPT !.agent_to_client =
                            IF live_events.status = "ended" THEN "done" ELSE "Exception"]
            /\ UNCHANGED live_events
    /\ UNCHANGED <<websocket, live_request_queue, svars, pvars>>

\* websocket_endpoint after asyncio.wait: live_request_queue.close()
websocket_endpoint_close ==
    /\ tasks.websocket_endpoint = "waiting"
    /\ WaitReturns(tasks)
    /\ live_request_queue' =
          Append(live_request_queue, Call("close", "websocket_endpoint", EmptyDict))
    /\ tasks' = [tasks EXCEPT !.websocket_endpoint = "returned"]
    /\ UNCHANGED <<websocket, live_events, svars, pvars>>

NextRelay ==
    \/ websocket_endpoint_start
    \/ client_sends
    \/ client_disconnects
    \/ agent_emits
    \/ agent_stream_ends
    \/ agent_stream_fails
    \/ client_to_agent_messaging
    \/ agent_to_client_messaging
    \/ websocket_endpoint_close

SpecRelay == InitRelay /\ [][NextRelay]_vars

\* the event loop runs every coroutine that is ready to go on; the client
\* and the agent are under no obligation
SpecRelayFair ==
    /\ SpecRelay
    /\ WF_vars(websocket_endpoint_start)
    /\ WF_vars(client_to_agent_messaging)
    /\ WF_vars(agent_to_client_messaging)
    /\ WF_vars(websocket_endpoint_close)

-----------------------------------------------------------------------------
(* qr_decoder.py: QRDecoder                                                *)

VCARD_BEGIN == <<"B", "E", "G", "I", "N", ":", "V", "C", "A", "R", "D">>

VCARD_END == <<"E", "N", "D", ":", "V", "C", "A", "R", "D">>

UpperChar(c) ==
    IF \E i \in 1..Len(LowerOf) : LowerOf[i] = c
    THEN Upper[CHOOSE i \in 1..Len(LowerOf) : LowerOf[i] = c]
    ELSE c

\* str.upper()
UpperCase(s) == [i \in 1..Len(s) |-> UpperChar(s[i])]

\* text.replace("\r\n", "\n").replace("\r", "\n")
RECURSIVE NormaliseNewlines(_)
NormaliseNewlines(s) ==
    IF s = <<>> THEN <<>>
    ELSE IF Head(s) = "\r"
    THEN <<"\n">> \o NormaliseNewlines(IF Len(s) >= 2 /\ s[2] = "\n"
                                        THEN Drop(s, 2)
                                        ELSE Tail(s))
    ELSE <<Head(s)>> \o NormaliseNewlines(Tail(s))

\* the places of the character c in s
Places(s, c) == {i \in 1..Len(s) : s[i] = c}

First(places) == CHOOSE i \in places : \A j \in places : i <= j

\* s.split(c)
RECURSIVE Split(_, _)
Split(s, c) ==
    IF Places(s, c) = {}
    THEN <<s>>
    ELSE LET i == First(Places(s, c))
         IN <<SubSeq(s, 1, i - 1)>> \o Split(Drop(s, i), c)

\* s.split(c, 1)
SplitOnce(s, c) ==
    IF Places(s, c) = {}
    THEN <<s>>
    ELSE LET i == First(Places(s, c))
         IN <<SubSeq(s, 1, i - 1), Drop(s, i)>>

\* sep.join(p for p in parts if p)
RECURSIVE JoinNonEmpty(_, _)
JoinNonEmpty(parts, sep) ==
    LET rest == SelectSeq(parts, LAMBDA p : p # <<>>)
    IN IF rest = <<>> THEN <<>>
       ELSE IF Len(rest) = 1 THEN rest[1]
       ELSE rest[1] \o sep \o JoinNonEmpty(Tail(rest), sep)

\* the unfolding loop of _parse_vcard: the lines still to read are added to
\* the list unfolded
RECURSIVE Unfold(_, _)
Unfold(unfolded, lines) ==
    IF lines = <<>>
    THEN unfolded
    ELSE LET line == Head(lines)
         IN IF line # <<>> /\ line[1] \in {" ", "\t"} /\ unfolded # <<>>
            THEN Unfold([unfolded EXCEPT ![Len(unfolded)] = @ \o LStrip(line)],
                        Tail(lines))
            ELSE Unfold(Append(unfolded, line), Tail(lines))

\* parts[i] of a Python list (i counted from 0) if it has one, else ""
Part(parts, i) == IF Len(parts) > i THEN parts[i + 1] ELSE <<>>

\* the body of the field loop of _parse_vcard for one line
ParseLine(fields, line) ==
    IF Places(line, ":") = {}
    THEN fields
    ELSE LET key == Split(UpperCase(SplitOnce(line, ":")[1]), ";")[1]
             val == Strip(SplitOnce(line, ":")[2])
             parts == Split(val, ";")
             name == Strip(JoinNonEmpty(<<Part(parts, 1), Part(parts, 0)>>, <<" ">>))
             region == Part(parts, 4)
             loc == JoinNonEmpty(<<Part(parts, 3),
                                   IF region # <<>> THEN region ELSE Part(parts, 6)>>,
                                 <<",", " ">>)
         IN IF key = <<"F", "N">> THEN Put(fields, "name", val)
            ELSE IF key = <<"N">>
            THEN IF Has(fields, "name") THEN fields ELSE Put(fields, "name", name)
            ELSE IF key = <<"T", "I", "T", "L", "E">> THEN Put(fields, "title", val)
            ELSE IF key = <<"O", "R", "G">> THEN Put(fields, "company", val)
            ELSE IF key = <<"A", "D", "R">>
            THEN IF loc # <<>> THEN Put(fields, "location", loc) ELSE fields
            ELSE IF key = <<"E", "M", "A", "I", "L">>
            THEN Put(fields, "emails", Append(Get(fields, "emails", <<>>), val))
            ELSE IF key = <<"T", "E", "L">>
            THEN Put(fields, "phones", Append(Get(fields, "phones", <<>>), val))
            ELSE IF key = <<"U", "R", "L">>
            THEN Put(fields, "urls", Append(Get(fields, "urls", <<>>), val))
            ELSE fields

RECURSIVE ParseLines(_, _)
ParseLines(fields, lines) ==
    IF lines = <<>> THEN fields
    ELSE ParseLines(ParseLine(fields, Head(lines)), Tail(lines))

\* QRDecoder._parse_vcard(vcard_text)
ParseVcard(vcard_text) ==
    ParseLines(EmptyDict, Unfold(<<>>, Split(NormaliseNewlines(vcard_text), "\n")))

\* QRDecoder._classify_payload(payload)
ClassifyPayload(payload) ==
    LET s == Strip(payload)
        U == UpperCase(s)
    IN IF StartsWith(Lower(s), HTTP) \/ StartsWith(Lower(s), HTTPS)
       THEN [kind |-> "url", data |-> [url |-> s]]
       ELSE IF StartsWith(U, VCARD_BEGIN) /\ Contains(U, VCARD_END)
       THEN [kind |-> "vcard", data |-> [vcard |-> ParseVcard(s)]]
       ELSE [kind |-> "text", data |-> [text |-> s]]

\* an image argument of decode: its Python type, what its content is (an
\* image, bytes or a path that is no image, or nothing at all), whether
\* detectAndDecodeMulti raises and the texts it decodes, and the text
\* detectAndDecode decodes ("" for none)
DecoderImage(type, content, multi_raises, texts, text) ==
    [type |-> type, content |-> content, multi_raises |-> multi_raises,
     texts |-> texts, text |-> text]

\* QRDecoder._load_image(image): the array, None, or the exception of
\* cv2.imdecode on an empty buffer
LoadImage(image) ==
    IF image.type = "ndarray" THEN [raised |-> "", loaded |-> TRUE]
    ELSE IF image.type = "bytes"
    THEN IF image.content = "empty" THEN [raised |-> "cv2.error", loaded |-> FALSE]
         ELSE [raised |-> "", loaded |-> image.content = "image"]
    ELSE IF image.type = "str"
    THEN [raised |-> "", loaded |-> image.content = "image"]
    ELSE [raised |-> "", loaded |-> FALSE]

\* QRDecoder._decode_multi(img)
DecodeMulti(image) ==
    IF image.multi_raises THEN <<>> ELSE SelectSeq(image.texts, LAMBDA x : x # <<>>)

\* QRDecoder._decode_single(img)
DecodeSingle(image) == IF image.text # <<>> THEN <<image.text>> ELSE <<>>

\* the loop of decode over the candidates
RECURSIVE FirstPreferred(_, _)
FirstPreferred(candidates, prefer) ==
    IF candidates = <<>>
    THEN EmptyDict
    ELSE IF ClassifyPayload(Head(candidates)).kind \in prefer
    THEN ClassifyPayload(Head(candidates)).data
    ELSE FirstPreferred(Tail(candidates), prefer)

\* QRDecoder(prefer).decode(image)
Decode(image, prefer) ==
    LET img == LoadImage(image)
        candidates == IF DecodeMulti(image) # <<>> THEN DecodeMulti(image)
                      ELSE DecodeSingle(image)
    IN IF img.raised # "" THEN [raised |-> img.raised, ret |-> EmptyDict]
       ELSE IF ~img.loaded THEN [raised |-> "", ret |-> EmptyDict]
       ELSE [raised |-> "", ret |-> FirstPreferred(candidates, prefer)]

\* the default of QRDecoder.__init__
DefaultPrefer == {"url", "vcard"}

-----------------------------------------------------------------------------
(* QRDecoder calls                                                         *)

\* lines of a vCard and further payloads
FnLine ==
    <<"F", "N", ":", "A", "d", "a", " ", "L", "o", "v", "e", "l", "a",
      "c", "e">>

NLine ==
    <<"N", ":", "L", "o", "v", "e", "l", "a", "c", "e", ";", "A", "d",
      "a">>

AdrLine ==
    <<"A", "D", "R", ":", ";", ";", "1", " ", "M", "a", "i", "n", " ",
      "S", "t", ";", "B", "e", "r", "l", "i", "n", ";", "B", "E",
      ";", "1", "0", "1", "1", "5", ";", "D", "E">>

TelLine ==
    <<"t", "e", "l", ";", "T", "Y", "P", "E", "=", "c", "e", "l", "l",
      ":", " ", "+", "1", " ", "5", "5", "5">>

OrgLine ==
    <<"O", "R", "G", ":", "A", "c", "m", "e">>

PayloadUpperUrl ==
    <<" ", " ", "H", "T", "T", "P", "S", ":", "/", "/", "E", "x", "a",
      "m", "p", "l", "e", ".", "c", "o", "m", "/", "x", " ", "\n">>

PayloadFtp ==
    <<"f", "t", "p", ":", "/", "/", "e", "x", "a", "m", "p", "l", "e",
      ".", "c", "o", "m", "/", "x">>

PayloadLowerVcard ==
    <<"b", "e", "g", "i", "n", ":", "v", "c", "a", "r", "d", "\n", "f",
      "n", ":", "A", "d", "a", "\n", "e", "n", "d", ":", "v", "c",
      "a", "r", "d">>

PayloadNoEnd ==
    <<"B", "E", "G", "I", "N", ":", "V", "C", "A", "R", "D", "\n", "F",
      "N", ":", "A", "d", "a">>

PayloadHttpText ==
    <<"s", "e", "e", " ", "h", "t", "t", "p", ":", "/", "/", "e", "x",
      "a", "m", "p", "l", "e", ".", "c", "o", "m">>

\* the line folded after its k-th character
Fold(line, k, newline, blank) == SubSeq(line, 1, k) \o newline \o blank \o Drop(line, k)

\* a vCard with the given lines
Card(lines, newline) ==
    VCARD_BEGIN \o newline \o JoinNonEmpty(lines, newline) \o newline \o VCARD_END

Newlines == {<<"\n">>, <<"\r", "\n">>, <<"\r">>}

VcardLines == {FnLine, NLine, AdrLine, TelLine}

\* vCard texts, each with the same card written with every field on one
\* line: cards with one line folded at any place, cards without a fold, and
\* a text whose first line starts with a blank
VcardTexts ==
    UNION { { [text |-> Card(<<OrgLine, Fold(line, k, newline, blank)>>, newline),
               one_line |-> Card(<<OrgLine, line>>, newline)] :
                k \in 1..(Len(line) - 1), newline \in Newlines,
                blank \in {<<" ">>, <<"\t">>} } : line \in VcardLines }
    \cup { [text |-> Card(<<OrgLine, line>>, <<"\n">>),
            one_line |-> Card(<<OrgLine, line>>, <<"\n">>)] : line \in VcardLines }
    \cup { [text |-> <<" ">> \o FnLine \o <<"\n">> \o OrgLine,
            one_line |-> <<" ">> \o FnLine \o <<"\n">> \o OrgLine] }

DecoderPayloads ==
    QrPayloads \cup {PayloadUpperUrl, PayloadFtp, PayloadLowerVcard, PayloadNoEnd,
                     PayloadHttpText}

\* images: arrays, bytes and paths with one or several QR codes, with a
\* detector whose multi-code call fails, and bytes, paths and values that
\* give no image
DecoderImages ==
    { DecoderImage(type, "image", raises, texts, text) :
        type \in {"ndarray", "bytes", "str"}, raises \in BOOLEAN,
        texts \in {<<>>, <<<<>>, QrText>>, <<QrText, QrVcard, QrProfile>>,
                   <<QrVcard, QrProfile>>},
        text \in {<<>>, QrText, QrProfile, PayloadLowerVcard} }
    \cup { DecoderImage("bytes", "garbage", FALSE, <<>>, <<>>),
           DecoderImage("bytes", "empty", FALSE, <<>>, <<>>),
           DecoderImage("str", "garbage", FALSE, <<>>, <<>>),
           DecoderImage("NoneType", "empty", FALSE, <<>>, <<>>) }

NoImage == DecoderImage("NoneType", "empty", FALSE, <<>>, <<>>)

DecoderArgs ==
    { [payload |-> v.text, one_line |-> v.one_line, image |-> NoImage] : v \in VcardTexts }
    \cup { [payload |-> p, one_line |-> p, image |-> NoImage] : p \in DecoderPayloads }
    \cup { [payload |-> <<>>, one_line |-> <<>>, image |-> i] : i \in DecoderImages }

InitDecoder ==
    /\ NewSession
    /\ NoConnection
    /\ pc = "start"
    /\ args \in DecoderArgs
    /\ world = QrWorld
    /\ calls = <<>>
    /\ result = [fn |-> "", raised |-> "", ret |-> EmptyDict]

decode ==
    /\ pc = "start"
    /\ pc' = "done"
    /\ result' = [fn |-> "decode", raised |-> Decode(args.image, DefaultPrefer).raised,
                  ret |-> Decode(args.image, DefaultPrefer).ret]
    /\ UNCHANGED <<args, world, calls, svars, rvars>>

classify_payload ==
    /\ pc = "start"
    /\ pc' = "done"
    /\ result' = [fn |-> "_classify_payload", raised |-> "",
                  ret |-> ClassifyPayload(args.payload)]
    /\ UNCHANGED <<args, world, calls, svars, rvars>>

parse_vcard ==
    /\ pc = "start"
    /\ pc' = "done"
    /\ result' = [fn |-> "_parse_vcard", raised |-> "", ret |-> ParseVcard(args.payload)]
    /\ UNCHANGED <<args, world, calls, svars, rvars>>

NextDecoder ==
    \/ decode
    \/ classify_payload
    \/ parse_vcard

SpecDecoder == InitDecoder /\ [][NextDecoder]_vars

-----------------------------------------------------------------------------
(* Properties of the conversation life cycle (Spec)                        *)

History(st) == Get(st, "chat_history", <<>>)

\* the last call was a user message answered in character
Answered ==
    /\ call.op = "chat_with_user"
    /\ ret \notin {NoPersonaYet, ConversationEndedNotice, ManualStopReply}

\* every key of st other than those in keys is in st2 with the same value,
\* and st2 has no key beyond those of st and keys
SameExcept(st, st2, keys) ==
    /\ DOMAIN st2 \ keys = DOMAIN st \ keys
    /\ \A k \in DOMAIN st \ keys : st2[k] = st[k]

\* C1: with an active persona, counting the accepted user messages from a
\* fresh or reset conversation, the reply to an accepted message carries the
\* END_CONVERSATION marker and sets conversation_ended exactly when it is
\* the 6th; no 7th message is accepted.
C1_AutoEndOnSixth ==
    /\ accepted <= 6
    /\ Answered =>
         /\ accepted >= 1
         /\ HasMarker(ret) <=> accepted = 6
         /\ ConversationEnded(state) <=> accepted = 6

C1_Witness ==
    /\ Answered
    /\ accepted = 6
    /\ HasMarker(ret)
    /\ ConversationEnded(state)
    /\ Len(History(state)) = 12

\* C2: once conversation_ended is true, a chat_with_user call returns the
\* ended notice and changes nothing in the state, and the flag is cleared by
\* no step other than reset_conversation.
C2_EndedIsSticky ==
    [][ConversationEnded(state) =>
         /\ call'.op = "chat_with_user" =>
              ret' = ConversationEndedNotice /\ state' = state
         /\ ~ConversationEnded(state') => call'.op = "reset_conversation"]_vars

C2_Witness ==
    /\ call.op = "chat_with_user"
    /\ ret = ConversationEndedNotice
    /\ ConversationEnded(state)
    /\ ~IsStopWord(call.arg)

\* C3: with an active persona and a conversation that has not ended, a
\* message whose trimmed lower-cased text is a stop command sets
\* conversation_ended, is answered with the marker and appends nothing to
\* chat_history, whatever the number of earlier messages.
C3_ManualStop ==
    [][(/\ PersonaActive(state)
        /\ ~ConversationEnded(state)
        /\ call'.op = "chat_with_user"
        /\ Strip(Lower(call'.arg)) \in StopCommands)
       => /\ ConversationEnded(state')
          /\ HasMarker(ret')
          /\ SameExcept(state, state', {"conversation_ended"})]_vars

C3_Witness ==
    /\ call.op = "chat_with_user"
    /\ call.arg = TxtEndInterview
    /\ ret = ManualStopReply
    /\ ConversationEnded(state)
    /\ accepted = 5
    /\ Len(History(state)) = 10

\* C4: reset_conversation removes conversation_ended and chat_history and
\* leaves every other key, current_persona included, unchanged; after a
\* reset the number of user messages in chat_history is the number accepted
\* since the reset, and the automatic end comes at the 6th of them.
C4_ResetRestarts ==
    /\ [][call'.op = "reset_conversation" =>
            /\ ~Has(state', "conversation_ended")
            /\ ~Has(state', "chat_history")
            /\ SameExcept(state, state', {"conversation_ended", "chat_history"})]_vars
    /\ [](was_reset =>
            /\ UserMessageCount(History(state)) = accepted
            /\ Answered => (HasMarker(ret) <=> accepted = 6))

C4_Witness ==
    /\ was_reset
    /\ Answered
    /\ accepted = 6
    /\ HasMarker(ret)
    /\ ConversationEnded(state)

\* C5: with no active persona, chat_with_user answers every input, stop
\* commands included, with the no-persona message and leaves the state
\* unchanged.
C5_NoPersona ==
    [][(~PersonaActive(state) /\ call'.op = "chat_with_user")
       => (ret' = NoPersonaYet /\ state' = state)]_vars

C5_Witness ==
    /\ call.op = "chat_with_user"
    /\ IsStopWord(call.arg)
    /\ ret = NoPersonaYet
    /\ ~PersonaActive(state)
    /\ Has(state, "shared_prompt")

-----------------------------------------------------------------------------
(* Properties of the message passing between the agents                    *)

Messages(st) == Get(st, "agent_messages", EmptyDict)

PersonaPending(st) == Has(Messages(st), "persona_agent")

CoachPending(st) == Has(Messages(st), "coach_agent")

\* C6: check_for_new_persona with a new_persona message pending stores it as
\* current_persona with active true and removes it from agent_messages,
\* touching nothing else; with none pending it returns the no-new-persona
\* string and changes nothing; and only broadcast_prompt_to_agents makes a
\* message pending.
C6_PersonaOnce ==
    [][/\ call'.op = "check_for_new_persona" =>
            IF PersonaPending(state)
            THEN /\ state'["current_persona"] =
                      [instructions |-> Messages(state)["persona_agent"].data,
                       profile |-> Messages(state)["persona_agent"].profile,
                       active |-> TRUE]
                 /\ ~PersonaPending(state')
                 /\ SameExcept(Messages(state), Messages(state'), {"persona_agent"})
                 /\ SameExcept(state, state', {"current_persona", "agent_messages"})
                 /\ ret' # NoNewPersona
            ELSE ret' = NoNewPersona /\ state' = state
       /\ (~PersonaPending(state) /\ PersonaPending(state'))
            => call'.op = "broadcast_prompt_to_agents"]_vars

C6_Witness ==
    /\ call.op = "check_for_new_persona"
    /\ ret = NoNewPersona
    /\ PersonaActive(state)
    /\ ~PersonaPending(state)
    /\ CoachPending(state)

\* C7: check_for_coaching_context with a coaching_context message pending
\* stores a coaching_context with active true built from the message's
\* profile and removes the message, touching nothing else; with none pending
\* it returns the no-new-context string and changes nothing; and only
\* broadcast_prompt_to_agents makes a message pending.
C7_CoachOnce ==
    [][/\ call'.op = "check_for_coaching_context" =>
            IF CoachPending(state)
            THEN LET msg == Messages(state)["coach_agent"]
                 IN /\ state'["coaching_context"] =
                         [company |-> Get(msg.profile, "company", "Unknown Company"),
                          position |-> Get(msg.profile, "position", "Unknown Position"),
                          name |-> Get(msg.profile, "name", "Unknown"),
                          industry_context |-> msg.data,
                          active |-> TRUE]
                    /\ ~CoachPending(state')
                    /\ SameExcept(Messages(state), Messages(state'), {"coach_agent"})
                    /\ SameExcept(state, state', {"coaching_context", "agent_messages"})
                    /\ ret' # NoNewCoachingContext
            ELSE ret' = NoNewCoachingContext /\ state' = state
       /\ (~CoachPending(state) /\ CoachPending(state'))
            => call'.op = "broadcast_prompt_to_agents"]_vars

C7_Witness ==
    /\ call.op = "check_for_coaching_context"
    /\ ret = NoNewCoachingContext
    /\ Has(state, "coaching_context")
    /\ state["coaching_context"].name = "Ada"
    /\ ~CoachPending(state)
    /\ PersonaPending(state)

\* C8: after a broadcast_prompt_to_agents call whose prompt_dict has
\* persona_instructions, the state holds shared_prompt with ready true, a
\* pending new_persona message for persona_agent and a pending
\* coaching_context message for coach_agent, both with the prompt's profile;
\* the other keys of the state and the other entries of agent_messages are
\* unchanged.
C8_BroadcastDelivers ==
    [][(call'.op = "broadcast_prompt_to_agents"
        /\ Has(call'.arg, "persona_instructions"))
       => LET profile == Get(call'.arg, "profile", EmptyDict)
          IN /\ Has(state', "shared_prompt")
             /\ state'["shared_prompt"].ready = TRUE
             /\ state'["shared_prompt"].profile = profile
             /\ PersonaPending(state')
             /\ Messages(state')["persona_agent"].type = "new_persona"
             /\ Messages(state')["persona_agent"].profile = profile
             /\ CoachPending(state')
             /\ Messages(state')["coach_agent"].type = "coaching_context"
             /\ Messages(state')["coach_agent"].profile = profile
             /\ SameExcept(Messages(state), Messages(state'),
                           {"persona_agent", "coach_agent"})
             /\ SameExcept(state, state', {"shared_prompt", "agent_messages"})]_vars

C8_Witness ==
    /\ call.op = "broadcast_prompt_to_agents"
    /\ Has(call.arg, "persona_instructions")
    /\ Get(call.arg, "profile", EmptyDict) = ProfileFull
    /\ Messages(state)["coach_agent"].profile = ProfileFull
    /\ PersonaActive(state)
    /\ state["current_persona"].profile = EmptyDict
    /\ Len(History(state)) = 4

\* C9: broadcast_prompt_to_agents with an empty prompt_dict or one without
\* persona_instructions returns the no-valid-prompt error and leaves the
\* state unchanged.
C9_InvalidPromptRejected ==
    [][(call'.op = "broadcast_prompt_to_agents"
        /\ (call'.arg = EmptyDict \/ "persona_instructions" \notin DOMAIN call'.arg))
       => (ret' = NoValidPrompt /\ state' = state)]_vars

C9_Witness ==
    /\ call.op = "broadcast_prompt_to_agents"
    /\ call.arg # EmptyDict
    /\ ~Has(call.arg, "persona_instructions")
    /\ ret = NoValidPrompt
    /\ Has(state, "shared_prompt")
    /\ state["shared_prompt"].profile = EmptyDict

-----------------------------------------------------------------------------
(* Properties of the profile builder (SpecProfile)                         *)

\* the image_bytes build_profile finds in its input_data for this request
ImageBytes ==
    IF result.fn = "build_profile_from_inputs" /\ args.image_b64.kind # "valid"
    THEN NoneBytes
    ELSE args.image_b64.bytes

\* the request was turned away before build_profile ran
BadBase64 ==
    result.fn = "build_profile_from_inputs" /\ args.image_b64.kind = "invalid"

QrSucceeds == TruthyBytes(ImageBytes) /\ QrToVcardOrUrl(ImageBytes).ret.status = "success"

QrFails == TruthyBytes(ImageBytes) /\ QrToVcardOrUrl(ImageBytes).ret.status # "success"

\* the profile sources build_profile called, each with its argument
SourcesUsed ==
    LET made == SelectSeq(calls, LAMBDA c :
                    c.by = "build_profile" /\ c.fn # "qr_to_vcard_or_url")
    IN [i \in 1..Len(made) |-> <<made[i].fn, made[i].arg>>]

\* the source the priority order names, reading 'otherwise' as in the claim
SourceByPriority ==
    IF QrSucceeds
    THEN <<"linkedin_profile_extractor", QrToVcardOrUrl(ImageBytes).ret.linkedin_url>>
    ELSE IF Truthy(args.linkedin_url)
    THEN <<"linkedin_profile_extractor", args.linkedin_url>>
    ELSE IF Truthy(args.preferences)
    THEN <<"nl_to_json_extractor", args.preferences>>
    ELSE <<"generic_profile", <<>>>>

\* what the source returns for its argument in this request's world
ReturnOf(source) ==
    IF source[1] = "linkedin_profile_extractor"
    THEN LinkedinProfileExtractor(source[2], args.email, args.password, world).ret
    ELSE IF source[1] = "nl_to_json_extractor"
    THEN NlToJsonExtractor(source[2], world).ret
    ELSE GenericProfile

\* C10 as stated, for build_profile itself: every call is answered by
\* exactly one source, the one the priority order names (a QR that decodes
\* to a LinkedIn profile URL, otherwise linkedin_url, otherwise preferences,
\* otherwise the generic profile).
C10_Original ==
    (pc = "done" /\ result.fn = "build_profile") =>
        /\ SourcesUsed = <<SourceByPriority>>
        /\ result.ret = ReturnOf(SourceByPriority)

\* C10 amended: a non-empty image_bytes whose QR does not decode to a
\* LinkedIn profile URL, or an image_b64 that is not valid base64, ends the
\* request with an error dictionary and no source is used; every other
\* request is answered by exactly one source, the one the priority order
\* names.
C10_ResolutionPriority ==
    pc = "done" =>
        IF QrFails \/ BadBase64
        THEN SourcesUsed = <<>> /\ Has(result.ret, "error")
        ELSE /\ SourcesUsed = <<SourceByPriority>>
             /\ result.ret = ReturnOf(SourceByPriority)

C10_Witness ==
    /\ pc = "done"
    /\ QrSucceeds
    /\ args.linkedin_url = UrlBob
    /\ args.preferences = PrefsText
    /\ SourcesUsed = <<<<"linkedin_profile_extractor", QrProfile>>>>
    /\ Has(result.ret, "name")
    /\ result.ret.url = QrProfile

-----------------------------------------------------------------------------
(* Error handling of the profile builder (SpecProfile)                     *)

\* the functions that stand behind the three profile sources: the scraper
\* wrapper and what it starts, the extractor and the model it asks, the
\* generic fallback
SourceFunctions ==
    {"linkedin_profile_extractor", "NamedTemporaryFile", "subprocess.run",
     "nl_to_json_extractor", "generate_content", "generic_profile"}

\* the functions called while the request was served
Called == {calls[i].fn : i \in 1..Len(calls)}

\* C11: when image_bytes is present and qr_to_vcard_or_url does not return
\* status success, build_profile returns a dictionary with an error key (the
\* QR tool's message) and calls neither the LinkedIn scraper nor the
\* natural-language extractor nor the generic fallback, whatever linkedin_url
\* and preferences are supplied.
C11_HardFailOnBadQr ==
    (pc = "done" /\ QrFails) =>
        /\ DOMAIN result.ret = {"error"}
        /\ result.ret.error = QrToVcardOrUrl(ImageBytes).ret.message
        /\ Called \cap SourceFunctions = {}
        /\ calls[1].fn = "qr_to_vcard_or_url"

\* a QR with a non-LinkedIn URL arrives together with a valid linkedin_url,
\* preferences and credentials in a world where scraping would have worked
C11_Witness ==
    /\ pc = "done"
    /\ result.fn = "build_profile"
    /\ ImageBytes.native = QrOtherUrl
    /\ args.linkedin_url = UrlBob
    /\ args.preferences = PrefsText
    /\ Truthy(args.email) /\ Truthy(args.password)
    /\ world.script_exists /\ world.scraper = "profile"
    /\ result.ret = [error |-> "We only accept LinkedIn profile URLs at the moment."]
    /\ Called = {"qr_to_vcard_or_url", "detectAndDecode"}

\* how many times fn was called while the request was served
TimesCalled(fn) == Len(SelectSeq(calls, LAMBDA c : c.fn = fn))

-----------------------------------------------------------------------------
(* Properties of the QR tools (SpecQr)                                     *)

\* the bytes qr_to_vcard_or_url was called with
QrBytes == args.image_b64.bytes

QrCalled == pc = "done" /\ TimesCalled("qr_to_vcard_or_url") = 1

\* the detector finds nothing in the image as given
NothingNative == QrBytes.kind = "image" /\ Strip(QrBytes.native) = <<>>

NoQrFound == [status |-> "error", message |-> "No QR code found in image."]

\* C13 as stated: within one call of qr_to_vcard_or_url the QR detector is
\* run at most once, and a detection that fails is reported at once as a
\* status error.
C13_Original ==
    QrCalled =>
        /\ TimesCalled("detectAndDecode") <= 1
        /\ NothingNative => result.ret = NoQrFound

\* C13 amended: the detector is run once on the image as given and, only
\* when that yields no payload and the shorter side of the image is below
\* 600 pixels, once more on an upscaled copy; never a third time.  When no
\* payload comes out of these attempts the call returns the status error
\* 'No QR code found in image.'; bytes that are no image are never given to
\* the detector.
C13_OneUpscaleRetry ==
    QrCalled =>
        /\ QrBytes.kind # "image" => TimesCalled("detectAndDecode") = 0
        /\ QrBytes.kind = "image" =>
              TimesCalled("detectAndDecode")
                = IF NothingNative /\ QrBytes.min_side < 600 THEN 2 ELSE 1
        /\ (NothingNative /\ (QrBytes.min_side >= 600 \/ Strip(QrBytes.upscaled) = <<>>))
              => result.ret = NoQrFound

\* a small image whose QR is read only from the upscaled copy
C13_Witness ==
    /\ QrCalled
    /\ QrBytes.min_side = 300
    /\ NothingNative
    /\ QrBytes.upscaled = QrProfile
    /\ TimesCalled("detectAndDecode") = 2
    /\ calls[3].arg = "img2"
    /\ result.ret = [status |-> "success", linkedin_url |-> QrProfile]

-----------------------------------------------------------------------------
(* Preconditions of linkedin_profile_extractor (SpecProfile)               *)

ExtractorCalled == pc = "done" /\ TimesCalled("linkedin_profile_extractor") = 1

\* the linkedin_url linkedin_profile_extractor was called with
ExtractorArg ==
    SelectSeq(calls, LAMBDA c : c.fn = "linkedin_profile_extractor")[1].arg

\* the URL is a LinkedIn profile URL once trimmed and given its scheme
UrlValid ==
    LET s == Strip(ExtractorArg)
    IN LinkedinProfileRe(IF LacksScheme(s) THEN HTTPS \o s ELSE s)

\* email and password are each given as argument or found in the environment
CredentialsKnown ==
    /\ Truthy(args.email) \/ Truthy(world.env_email)
    /\ Truthy(args.password) \/ Truthy(world.env_password)

NoSideEffect ==
    TimesCalled("NamedTemporaryFile") = 0 /\ TimesCalled("subprocess.run") = 0

\* C14: linkedin_profile_extractor checks URL validity, then the presence of
\* the scraper script, then the credentials, and returns the error of the
\* first check that fails; in each of these cases no temporary file is
\* created and no subprocess is started.  Only when all three pass is the
\* temporary file created and the subprocess started.
C14_PreconditionsInOrder ==
    ExtractorCalled =>
        /\ ~UrlValid =>
              result.ret = [error |-> "Invalid LinkedIn profile URL."] /\ NoSideEffect
        /\ (UrlValid /\ ~world.script_exists) =>
              result.ret = [error |-> "linkedin_scrape_chrome.py not found"]
              /\ NoSideEffect
        /\ (UrlValid /\ world.script_exists /\ ~CredentialsKnown) =>
              result.ret = [error |-> "Missing EMAIL/PASSWORD for LinkedIn"]
              /\ NoSideEffect
        /\ (UrlValid /\ world.script_exists /\ CredentialsKnown) =>
              /\ TimesCalled("NamedTemporaryFile") = 1
              /\ TimesCalled("subprocess.run") = 1

\* all three preconditions fail and the URL's error is the one reported
C14_Witness ==
    /\ ExtractorCalled
    /\ ExtractorArg = UrlNotProfile
    /\ ~world.script_exists
    /\ ~CredentialsKnown
    /\ result.ret = [error |-> "Invalid LinkedIn profile URL."]
    /\ NoSideEffect

-----------------------------------------------------------------------------
(* Shape of the scraper wrapper's result (SpecProfile)                     *)

ProfileKeys == {"name", "position", "company", "location", "url"}

\* C15 as stated: every result of linkedin_profile_extractor is a dictionary
\* with the keys name, position, company, location and url, or a dictionary
\* with an error key, whatever the scraper subprocess wrote to its output
\* file.
C15_ProfileOrError ==
    ExtractorCalled =>
        \/ ProfileKeys \subseteq DOMAIN result.ret
        \/ Has(result.ret, "error")

-----------------------------------------------------------------------------
(* Result of qr_to_vcard_or_url (SpecQr)                                   *)

\* C16: qr_to_vcard_or_url returns status success with linkedin_url exactly
\* when a QR payload was decoded and the payload, trimmed and with https://
\* put before it if it starts with linkedin.com/ or www.linkedin.com/,
\* matches the LinkedIn profile URL pattern; linkedin_url is then that
\* trimmed and prefixed payload.  In every other case it returns status error
\* with the message of the first thing that went wrong: not an image, image
\* not decodable, no QR code, or a payload that is no LinkedIn profile URL.
C16_SuccessIffProfileUrl ==
    QrCalled =>
        LET d == DecodeQrCv2(QrBytes)
            payload == Strip(d.ret)
            url == IF \/ StartsWith(Lower(payload), LINKEDIN_COM)
                      \/ StartsWith(Lower(payload), WWW_LINKEDIN_COM)
                   THEN HTTPS \o payload
                   ELSE payload
        IN IF d.raised = "" /\ d.ret # None /\ LinkedinProfileRe(url)
           THEN result.ret = [status |-> "success", linkedin_url |-> url]
           ELSE /\ DOMAIN result.ret = {"status", "message"}
                /\ result.ret.status = "error"
                /\ result.ret.message =
                     IF d.raised = "UnidentifiedImageError"
                     THEN "Invalid image data: not a recognizable image."
                     ELSE IF d.raised # ""
                     THEN "Unable to decode QR from the provided image."
                     ELSE IF d.ret = None
                     THEN "No QR code found in image."
                     ELSE "We only accept LinkedIn profile URLs at the moment."

\* a payload with blanks around it and no scheme is accepted, trimmed and
\* prefixed
C16_Witness ==
    /\ QrCalled
    /\ QrBytes.native = QrNoScheme
    /\ QrNoScheme # Strip(QrNoScheme)
    /\ result.ret = [status |-> "success", linkedin_url |-> HTTPS \o Strip(QrNoScheme)]
    /\ result.ret.linkedin_url = QrProfile

-----------------------------------------------------------------------------
(* Properties of the WebSocket relay (SpecRelay, SpecRelayFair)            *)

\* the calls client_to_agent_messaging made on the live request queue
ClientCalls ==
    SelectSeq(live_request_queue, LAMBDA c : c.by = "client_to_agent_messaging")

IsEnvelope(frame) == frame.kind = "json"

Supported(frame) == IsEnvelope(frame) /\ frame.mime_type \in {"text/plain", "audio/pcm"}

FrameError(frame) ==
    IF ~IsEnvelope(frame) THEN "JSONDecodeError"
    ELSE IF frame.mime_type = "text/plain" THEN ""
    ELSE IF frame.mime_type = "audio/pcm" THEN B64Decode(frame.data).raised
    ELSE "ValueError"

\* the calls a sequence of frames is forwarded as
RECURSIVE Forwarded(_)
Forwarded(frames) ==
    IF frames = <<>>
    THEN <<>>
    ELSE LET frame == Head(frames)
         IN (IF FrameError(frame) # ""
             THEN <<>>
             ELSE IF frame.mime_type = "text/plain"
             THEN <<Call("send_content", "client_to_agent_messaging",
                         [role |-> "user", text |-> frame.data])>>
             ELSE <<Call("send_realtime", "client_to_agent_messaging",
                         [data |-> B64Decode(frame.data).ret,
                          mime_type |-> "audio/pcm"])>>)
            \o Forwarded(Tail(frames))

Closes == Len(SelectSeq(live_request_queue, LAMBDA c : c.fn = "close"))

\* C18: once the websocket has disconnected or a relay task has raised,
\* websocket_endpoint eventually closes the connection's LiveRequestQueue,
\* and the queue is never closed more than once.
C18_ClosesQueueOnce ==
    /\ [](Closes <= 1)
    /\ (\/ websocket.state = "disconnected"
        \/ Raised(tasks.client_to_agent)
        \/ Raised(tasks.agent_to_client)) ~> (Closes = 1)

\* the client left, the client-to-agent task ended on it, the queue is closed
C18_Witness ==
    /\ websocket.state = "disconnected"
    /\ tasks.client_to_agent = "WebSocketDisconnect"
    /\ tasks.agent_to_client = "running"
    /\ tasks.websocket_endpoint = "returned"
    /\ Closes = 1
    /\ live_request_queue[Len(live_request_queue)].fn = "close"

-----------------------------------------------------------------------------
(* Properties of QRDecoder (SpecDecoder)                                   *)

\* the lines of the text given to _parse_vcard, before unfolding
TextLines == Split(NormaliseNewlines(args.payload), <<"\n">>[1])

\* C19: _parse_vcard unfolds continuation lines, so that a vCard with a field
\* split over continuation lines parses to the same fields as the card with
\* that field written on one line, and a first line that starts with
\* whitespace is kept as a line of its own.
C19_FoldedParsesAsOneLine ==
    result.fn = "_parse_vcard" =>
        /\ result.ret = ParseVcard(args.one_line)
        /\ Unfold(<<>>, TextLines)[1] = TextLines[1]

\* the image given to decode is one that cannot be loaded
CannotBeLoaded ==
    \/ args.image.type \notin {"ndarray", "bytes", "str"}
    \/ args.image.type \in {"bytes", "str"} /\ args.image.content # "image"

\* the trimmed payload starts with http:// or https://, in any case
StartsWithScheme ==
    LET s == Strip(args.payload)
    IN \/ Len(s) >= Len(HTTP) /\ Lower(SubSeq(s, 1, Len(HTTP))) = HTTP
       \/ Len(s) >= Len(HTTPS) /\ Lower(SubSeq(s, 1, Len(HTTPS))) = HTTPS

\* the trimmed payload, upper-cased, starts with BEGIN:VCARD and contains
\* END:VCARD
LooksLikeVcard ==
    LET U == UpperCase(Strip(args.payload))
    IN /\ Len(U) >= Len(VCARD_BEGIN)
       /\ SubSeq(U, 1, Len(VCARD_BEGIN)) = VCARD_BEGIN
       /\ \E i \in 1..Len(U) : /\ i + Len(VCARD_END) - 1 <= Len(U)
                               /\ SubSeq(U, i, i + Len(VCARD_END) - 1) = VCARD_END

\* C20: _classify_payload gives every payload exactly one kind: url when the
\* trimmed payload starts with http:// or https:// in any case, otherwise
\* vcard when upper-cased it starts with BEGIN:VCARD and contains END:VCARD,
\* otherwise text; decode with the default prefer tuple returns a url
\* dictionary, a vcard dictionary or the empty dictionary and never a text
\* dictionary, and returns the empty dictionary when the image cannot be
\* loaded.
C20_ClassifiesAndNeverText ==
    /\ result.fn = "_classify_payload" =>
           /\ result.ret.kind = (IF StartsWithScheme THEN "url"
                                 ELSE IF LooksLikeVcard THEN "vcard" ELSE "text")
           /\ DOMAIN result.ret.data = {result.ret.kind}
    /\ result.fn = "decode" =>
           /\ result.raised = ""
           /\ DOMAIN result.ret \in {{"url"}, {"vcard"}, {}}
           /\ CannotBeLoaded => result.ret = EmptyDict

====
